---- MODULE Spec2Model ----
(***************************************************************************)
(* Model of the YouTube download endpoint (youtube_api/views.py): the      *)
(* format-selector builders, the postprocessor plan, the strategy table    *)
(* and the fallback loop of YouTubeDownloadView.post.                      *)
(*                                                                         *)
(* Python strings whose characters matter (request values, format          *)
(* strings, file names) are sequences of one-character strings, so that    *)
(* f-string interpolation is sequence concatenation and str.isdigit,       *)
(* os.path.splitext and str.lstrip are computed character by character.    *)
(* Dictionary keys and fixed option values are TLA+ strings.               *)
(***************************************************************************)
EXTENDS Integers, Sequences, FiniteSets, TLC

(***************************************************************************)
(* Bounds of the model.                                                    *)
(***************************************************************************)
\* largest byte size of a file the extractor leaves in the scratch directory
MaxSize == 2

(***************************************************************************)
(* Python values carried by the request body (JSON): str, int, None.       *)
(***************************************************************************)
PyStr(s) == [t |-> "str", s |-> s, n |-> 0]
PyInt(n) == [t |-> "int", s |-> <<>>, n |-> n]
PyNone == [t |-> "none", s |-> <<>>, n |-> 0]

\* bool(v) of a Python value
Truthy(v) ==
    CASE v.t = "str" -> Len(v.s) > 0
      [] v.t = "int" -> v.n # 0
      [] OTHER -> FALSE

Digits == <<"0", "1", "2", "3", "4", "5", "6", "7", "8", "9">>

\* str.isdigit(): non-empty and every character a digit
isdigit(s) == Len(s) > 0 /\ \A k \in 1..Len(s) : \E d \in 1..10 : Digits[d] = s[k]

RECURSIVE Decimal(_)
\* str(n) of a non-negative int
Decimal(n) == IF n < 10 THEN <<Digits[n + 1]>>
              ELSE Decimal(n \div 10) \o <<Digits[(n % 10) + 1]>>

S_None == <<"N", "o", "n", "e">>

\* the text an f-string interpolates for a value: {v}
Format(v) ==
    CASE v.t = "str" -> v.s
      [] v.t = "int" -> IF v.n < 0 THEN <<"-">> \o Decimal(0 - v.n) ELSE Decimal(v.n)
      [] OTHER -> S_None

(***************************************************************************)
(* String literals of the selector grammar.                                *)
(***************************************************************************)
S_best == <<"b", "e", "s", "t">>
S_worst == <<"w", "o", "r", "s", "t">>
S_auto == <<"a", "u", "t", "o">>
S_bestaudio == <<"b", "e", "s", "t", "a", "u", "d", "i", "o">>
S_slash == <<"/">>
S_height_le == <<"[", "h", "e", "i", "g", "h", "t", "<", "=">>
S_ext_eq == <<"[", "e", "x", "t", "=">>
S_close == <<"]">>
S_audio == <<"a", "u", "d", "i", "o">>
S_video == <<"v", "i", "d", "e", "o">>

\* a height bound that excludes the requested height itself
HeightTerm_Strict(q) == S_best \o <<"[", "h", "e", "i", "g", "h", "t", "<">> \o q \o S_close
\* f"best[height<={video_quality}]"
HeightTerm(q) == S_best \o S_height_le \o q \o S_close
\* f"[ext={video_format}]"
ExtFilter(f) == S_ext_eq \o f \o S_close

(***************************************************************************)
(* build_video_format_string.  The result is [ok, val, exc]: the returned  *)
(* string, or the exception the call raises.                               *)
(***************************************************************************)
Returned(v) == [ok |-> TRUE, val |-> v, exc |-> "none"]
Raised(e) == [ok |-> FALSE, val |-> <<>>, exc |-> e]

\* lines 24-32: the if/elif chain choosing the base term
BaseTerm(video_quality) ==
    IF video_quality = PyStr(S_best) THEN S_best
    ELSE IF video_quality = PyStr(S_worst) THEN S_worst
    ELSE IF isdigit(video_quality.s) THEN HeightTerm(video_quality.s)
    ELSE S_best

\* lines 35-38: the container constraint replaces the term built so far
FormatTerm(video_quality, video_format) ==
    IF Truthy(video_format) /\ video_format # PyStr(S_auto)
    THEN IF isdigit(video_quality.s)
         THEN HeightTerm(video_quality.s) \o ExtFilter(Format(video_format))
         ELSE S_best \o ExtFilter(Format(video_format))
    ELSE BaseTerm(video_quality)

\* line 28 evaluates video_quality.isdigit() for every value that is neither
\* "best" nor "worst"; a value that is not a str has no such method
QualityRaises(video_quality) ==
    /\ video_quality # PyStr(S_best)
    /\ video_quality # PyStr(S_worst)
    /\ video_quality.t # "str"

\* a builder that enforces the size cap with a filesize filter
build_video_format_string_SizeFilter(video_quality, video_format, video_codec, file_size_limit) ==
    IF QualityRaises(video_quality)
    THEN Raised("AttributeError")
    ELSE Returned(FormatTerm(video_quality, video_format)
                  \o (IF Truthy(file_size_limit)
                      THEN <<"[", "f", "i", "l", "e", "s", "i", "z", "e", "<">>
                           \o Format(file_size_limit) \o <<"M", "]">>
                      ELSE <<>>)
                  \o S_slash \o S_best)

build_video_format_string(video_quality, video_format, video_codec, file_size_limit) ==
    IF QualityRaises(video_quality)
    THEN Raised("AttributeError")
    ELSE Returned(FormatTerm(video_quality, video_format) \o S_slash \o S_best)

\* a builder that asks for the audio stream of the requested container
build_audio_format_string_Ext(audio_quality, audio_format, file_size_limit) ==
    Returned(S_bestaudio \o ExtFilter(Format(audio_format)) \o S_slash \o S_best)

build_audio_format_string(audio_quality, audio_format, file_size_limit) ==
    Returned(S_bestaudio \o S_slash \o S_best)

(***************************************************************************)
(* get_postprocessors: the ordered postprocessor list.                     *)
(***************************************************************************)
S_avi == <<"a", "v", "i">>
S_mov == <<"m", "o", "v">>
S_mkv == <<"m", "k", "v">>
S_flv == <<"f", "l", "v">>
\* the conversion set without flv
ConvertFormats_NoFlv == {PyStr(S_avi), PyStr(S_mov), PyStr(S_mkv)}
ConvertFormats == {PyStr(S_avi), PyStr(S_mov), PyStr(S_mkv), PyStr(S_flv)}

\* an extraction step that always converts to mp3
ExtractAudio_Mp3(audio_format, audio_quality) ==
    [key |-> "FFmpegExtractAudio", preferredcodec |-> PyStr(<<"m", "p", "3">>),
     preferredquality |-> audio_quality]
ExtractAudio(audio_format, audio_quality) ==
    [key |-> "FFmpegExtractAudio", preferredcodec |-> audio_format,
     preferredquality |-> audio_quality]
VideoConvertor(video_format) ==
    [key |-> "FFmpegVideoConvertor", preferedformat |-> video_format]
SubtitlesConvertor == [key |-> "FFmpegSubtitlesConvertor", format |-> "srt"]
EmbedThumbnail == [key |-> "EmbedThumbnail"]
Metadata == [key |-> "FFmpegMetadata"]

\* a plan that embeds the metadata before the subtitles are converted
get_postprocessors_MetadataFirst(download_type, video_format, audio_format, audio_quality, include_subtitles, include_thumbnail, include_metadata) ==
    (IF download_type = PyStr(S_audio)
     THEN <<ExtractAudio(audio_format, audio_quality)>>
     ELSE IF download_type = PyStr(S_video) /\ video_format \in ConvertFormats
          THEN <<VideoConvertor(video_format)>>
          ELSE <<>>)
    \o (IF include_metadata THEN <<Metadata>> ELSE <<>>)
    \o (IF include_subtitles THEN <<SubtitlesConvertor>> ELSE <<>>)
    \o (IF include_thumbnail /\ download_type = PyStr(S_audio)
        THEN <<EmbedThumbnail>> ELSE <<>>)

get_postprocessors(download_type, video_format, audio_format, audio_quality, include_subtitles, include_thumbnail, include_metadata) ==
    (IF download_type = PyStr(S_audio)
     THEN <<ExtractAudio(audio_format, audio_quality)>>
     ELSE IF download_type = PyStr(S_video) /\ video_format \in ConvertFormats
          THEN <<VideoConvertor(video_format)>>
          ELSE <<>>)
    \o (IF include_subtitles THEN <<SubtitlesConvertor>> ELSE <<>>)
    \o (IF include_thumbnail /\ download_type = PyStr(S_audio)
        THEN <<EmbedThumbnail>> ELSE <<>>)
    \o (IF include_metadata THEN <<Metadata>> ELSE <<>>)

(***************************************************************************)
(* Python dicts are functions from key strings to values.                  *)
(***************************************************************************)
EmptyDict == [k \in {} |-> TRUE]
\* {**d, **u} and d.update(u): the keys of u win
Updated(d, u) == u @@ d

\* os.path.join(temp_dir, "video.%(ext)s")
OutTmpl(dir) == <<dir, "video.%(ext)s">>

\* lines 155-203
common_opts(dir) ==
    [outtmpl |-> OutTmpl(dir),
     quiet |-> FALSE,
     no_warnings |-> FALSE,
     extractor_args |->
        [youtube |-> [player_client |-> <<"android", "web">>,
                      player_skip |-> <<"webpage">>]],
     http_headers |->
        [UserAgent |-> "Mozilla/5.0 (iPhone; CPU iPhone OS 16_6 like Mac OS X) AppleWebKit/605.1.15 (KHTML, like Gecko) Version/16.6 Mobile/15E148 Safari/604.1",
         Accept |-> "*/*",
         AcceptLanguage |-> "en-US,en;q=0.9",
         AcceptEncoding |-> "gzip, deflate, br",
         Origin |-> "https://www.youtube.com",
         Referer |-> "https://www.youtube.com/",
         XGoogVisitorId |-> "CgtVaVlJeUdvdFZYdyiFjYuSBg%3D%3D",
         XYoutubeClientName |-> "2",
         XYoutubeClientVersion |-> "2.20231205.00.00"],
     cookiefile |-> PyNone,
     no_check_certificate |-> TRUE,
     ignoreerrors |-> FALSE,
     geo_bypass |-> TRUE,
     geo_bypass_country |-> "US",
     extractor_retries |-> 10,
     fragment_retries |-> 10,
     retries |-> 10,
     file_access_retries |-> 5,
     sleep_interval |-> 3,
     max_sleep_interval |-> 15,
     sleep_interval_requests |-> 2,
     sleep_interval_subtitles |-> 1,
     force_ipv4 |-> TRUE,
     socket_timeout |-> 60,
     extract_flat |-> FALSE,
     writethumbnail |-> FALSE,
     writeinfojson |-> FALSE,
     skip_download |-> FALSE]

\* the video selector is built only for type 'video'
format_string_VideoOnly(rq) ==
    IF rq.type = PyStr(S_video)
    THEN build_video_format_string(rq.video_quality, rq.video_format,
                                   rq.video_codec, rq.file_size_limit)
    ELSE build_audio_format_string(rq.audio_quality, rq.audio_format, rq.file_size_limit)

\* lines 206-218: the selector of the request
format_string(rq) ==
    IF rq.type = PyStr(S_audio)
    THEN build_audio_format_string(rq.audio_quality, rq.audio_format, rq.file_size_limit)
    ELSE build_video_format_string(rq.video_quality, rq.video_format,
                                   rq.video_codec, rq.file_size_limit)

\* lines 220-228
postprocessors(rq) ==
    get_postprocessors(rq.type, rq.video_format, rq.audio_format, rq.audio_quality,
                       rq.include_subtitles, rq.include_thumbnail, rq.include_metadata)

\* lines 249-256
SubtitleOpts ==
    [writesubtitles |-> TRUE, writeautomaticsub |-> TRUE,
     subtitleslangs |-> <<"en", "en-US">>]
\* lines 259-264
ThumbnailOpts == [writethumbnail |-> TRUE]

\* lines 232-264: the base configuration, given the selector fmt
BaseOpts(rq, dir, cookies, fmt) ==
    LET o1 == Updated(common_opts(dir),
                      [format |-> fmt, postprocessors |-> postprocessors(rq)])
        o2 == IF cookies THEN Updated(o1, [cookies |-> "cookies.txt"]) ELSE o1
        o3 == IF rq.include_subtitles THEN Updated(o2, SubtitleOpts) ELSE o2
    IN  IF rq.include_thumbnail THEN Updated(o3, ThumbnailOpts) ELSE o3

\* the extractor_args overrides of strategies 2 to 5 (lines 270-296)
IosArgs == [youtube |-> [player_client |-> <<"ios">>]]
AndroidTvArgs == [youtube |-> [player_client |-> <<"android", "tv">>]]
WebEmbedArgs == [youtube |-> [player_client |-> <<"web">>, player_skip |-> <<"configs">>]]
MwebArgs == [youtube |-> [player_client |-> <<"mweb">>]]
\* a last resort that names the best stream twice
FallbackFormat_BestOnly == S_best \o S_slash \o S_best
\* "best/worst" (line 298)
FallbackFormat == S_best \o S_slash \o S_worst

\* a variant rebuilt from the override alone, losing the postprocessing plan
WithArgs_DropsPlan(opts, args) ==
    Updated(opts, [extractor_args |-> args, postprocessors |-> <<>>])
\* {**ydl_opts, "extractor_args": args}
WithArgs(opts, args) == Updated(opts, [extractor_args |-> args])
\* a last resort that keeps the network identity of the base configuration
Fallback_KeepsArgs(opts) == Updated(opts, [format |-> FallbackFormat])
\* {**ydl_opts, "format": "best/worst", "extractor_args": {}}
Fallback(opts) == Updated(opts, [format |-> FallbackFormat, extractor_args |-> EmptyDict])

\* lines 267-299
StrategyTable(opts) ==
    <<opts,
      WithArgs(opts, IosArgs),
      WithArgs(opts, AndroidTvArgs),
      WithArgs(opts, WebEmbedArgs),
      WithArgs(opts, MwebArgs),
      Fallback(opts)>>

\* the message of the AttributeError raised by video_quality.isdigit()
AttributeErrorMsg(v) ==
    IF v.t = "int" THEN "'int' object has no attribute 'isdigit'"
    ELSE "'NoneType' object has no attribute 'isdigit'"

\* lines 155-299 as one computation: the base configuration and the
\* strategy table, or the exception raised while building them
BuildStrategies(rq, dir, cookies) ==
    LET f == format_string(rq)
    IN  IF f.ok
        THEN [ok |-> TRUE,
              ydl_opts |-> BaseOpts(rq, dir, cookies, f.val),
              strategies |-> StrategyTable(BaseOpts(rq, dir, cookies, f.val)),
              exc |-> PyNone]
        ELSE [ok |-> FALSE, ydl_opts |-> EmptyDict, strategies |-> <<>>,
              exc |-> [type |-> f.exc, msg |-> AttributeErrorMsg(rq.video_quality)]]

(***************************************************************************)
(* Result selection helpers (lines 332-380).                               *)
(***************************************************************************)
\* index of the last "." of a name, 0 when there is none
LastDot(name) ==
    IF \E k \in 1..Len(name) : name[k] = "."
    THEN CHOOSE k \in 1..Len(name) :
            name[k] = "." /\ \A j \in (k + 1)..Len(name) : name[j] # "."
    ELSE 0

\* os.path.splitext(name)[1]: from the last dot on, unless only dots precede it
splitext_ext(name) ==
    IF LastDot(name) > 0 /\ \E j \in 1..(LastDot(name) - 1) : name[j] # "."
    THEN SubSeq(name, LastDot(name), Len(name))
    ELSE <<>>

RECURSIVE lstrip_dot(_)
\* str.lstrip(".")
lstrip_dot(s) == IF Len(s) > 0 /\ Head(s) = "." THEN lstrip_dot(Tail(s)) ELSE s

S_mp4 == <<"m", "p", "4">>
S_mp3 == <<"m", "p", "3">>
S_jpg == <<"j", "p", "g">>
S_flac == <<"f", "l", "a", "c">>
S_webm == <<"w", "e", "b", "m">>
S_download_dot == <<"d", "o", "w", "n", "l", "o", "a", "d", ".">>

\* lines 361-380
content_type_map(ext) ==
    CASE ext = S_mp4 -> "video/mp4"
      [] ext = S_webm -> "video/webm"
      [] ext = S_mkv -> "video/x-matroska"
      [] ext = S_avi -> "video/x-msvideo"
      [] ext = S_mov -> "video/quicktime"
      [] ext = S_flv -> "video/x-flv"
      [] ext = S_mp3 -> "audio/mpeg"
      [] ext = <<"m", "4", "a">> -> "audio/mp4"
      [] ext = S_flac -> "audio/flac"
      [] ext = <<"o", "g", "g">> -> "audio/ogg"
      [] ext = <<"w", "a", "v">> -> "audio/wav"
      [] ext = <<"o", "p", "u", "s">> -> "audio/opus"
      [] ext = <<"a", "a", "c">> -> "audio/aac"
      [] OTHER -> "application/octet-stream"

\* the extension of the file, with no fallback to the requested container
actual_extension_NoFallback(rq, name) == lstrip_dot(splitext_ext(name))
\* lines 352-356
actual_extension(rq, name) ==
    IF lstrip_dot(splitext_ext(name)) # <<>>
    THEN lstrip_dot(splitext_ext(name))
    ELSE IF rq.type = PyStr(S_audio) THEN Format(rq.audio_format)
         ELSE Format(rq.video_format)

\* lines 358-389: the file response
FileResponse(rq, file) ==
    [status |-> 200,
     body |-> file,
     content_type |-> content_type_map(actual_extension(rq, file.name)),
     filename |-> S_download_dot \o actual_extension(rq, file.name)]

\* lines 334-341: the files that can come first after the stable sort by
\* size, descending; os.listdir returns the names in arbitrary order
\* the first file listed, whatever its size
LargestFiles_Any(fs) == fs
\* the sort is ascending: the smallest file comes first
LargestFiles_Smallest(fs) == {f \in fs : \A g \in fs : f.size <= g.size}
LargestFiles(fs) == {f \in fs : \A g \in fs : g.size <= f.size}

\* lines 146-149
UrlRequired == [status |-> 400, error |-> "URL is required"]
\* lines 327-330
DownloadFailed == [status |-> 500, error |-> "Download failed"]
\* lines 393-398
ErrorResponse(e) == [status |-> 500, error |-> e.msg, error_type |-> e.type]

(***************************************************************************)
(* The extractor (yt_dlp.YoutubeDL.extract_info), an external              *)
(* collaborator: it either returns after writing files to the directory    *)
(* of the strategy's output template, or raises.                           *)
(***************************************************************************)
Causes == {"HTTP Error 403: Forbidden", "Sign in to confirm you are not a bot"}
N_video_mp4 == S_video \o <<".">> \o S_mp4
N_video_jpg == S_video \o <<".">> \o S_jpg
N_video == S_video
N_part == S_video \o <<".">> \o S_mp4 \o <<".", "p", "a", "r", "t">>

File(name, size, by) == [name |-> name, size |-> size, by |-> by]

\* what a returning invocation k = <<request, strategy>> can leave in the
\* directory; every file carries the invocation that wrote it
Outputs(k) ==
    {{}}
    \cup {{File(n, 1, k)} : n \in {N_video_mp4, N_video_jpg, N_video}}
    \cup {{File(N_video_mp4, a, k), File(N_video_jpg, b, k)} :
            a \in 1..MaxSize, b \in 1..MaxSize}
\* what a raising invocation k = <<request, strategy>> can leave behind
Leftovers(k) == {{}} \cup {{File(N_part, a, k)} : a \in 1..MaxSize}

\* writing files to a directory replaces the files of the same name
Written(old, new) ==
    {f \in old : \A g \in new : g.name # f.name} \cup new

(***************************************************************************)
(* State.  Each request r runs YouTubeDownloadView.post on its own thread; *)
(* the locals of post are functions of r.  The file system is shared.      *)
(***************************************************************************)
Reqs == {"r1", "r2"}
DirIds == {"tmp1", "tmp2"}

VARIABLES
    req,          \* request.data after the defaults of lines 114-138
    pc,           \* position of each request in post
    temp_dir,     \* the scratch directory of the request (line 153)
    ydl_opts,     \* the base configuration (lines 232-264)
    strategies,   \* the strategy table (lines 267-299)
    i,            \* index of the strategy being attempted, from 1
    info,         \* result of extract_info (line 301, 310)
    last_error,   \* line 302, 314
    exc,          \* the exception propagating out of the with block
    main_file,    \* line 341
    response,     \* the response returned by post
    calls,        \* the invocations of extract_info made so far, in order
    cookies,      \* whether cookies.txt exists next to the module (line 242)
    dirs,         \* the scratch directories that exist
    files         \* the files of each scratch directory

ytVars == <<req, pc, temp_dir, ydl_opts, strategies, i, info, last_error, exc,
            main_file, response, calls, cookies, dirs, files>>

(***************************************************************************)
(* State of the media converter (src/media_converter/views.py).  Each      *)
(* conversion request c runs MediaConvertView.post and each status request *)
(* s runs ConversionStatusView.get, on a thread of its own; the task map   *)
(* and the upload directory are shared.                                    *)
(***************************************************************************)
ConvReqs == {"c1", "c2"}
StatusReqs == {"s1"}

VARIABLES
    conversion_tasks,  \* the module-level dict of line 33
    temp_uploads,      \* names of the files in MEDIA_ROOT/temp_uploads
    mreq,              \* request.data of each conversion request
    mpc,               \* position of each conversion request in post
    input_path,        \* line 139, 153
    task_id,           \* line 160
    mexc,              \* the exception caught at line 230
    mresponse,         \* the response returned by post
    sreq,              \* the task_id argument of each status request
    spc,               \* position of each status request in get
    response_data,     \* line 260
    sresponse          \* the response returned by get

mcVars == <<conversion_tasks, temp_uploads, mreq, mpc, input_path, task_id, mexc,
            mresponse, sreq, spc, response_data, sresponse>>

(***************************************************************************)
(* State of the upload gate (src/media_converter/middleware.py).           *)
(***************************************************************************)
VARIABLES
    mw_request,        \* content_type and META['CONTENT_LENGTH'] of the request
    mw_pc,             \* position in LargeFileUploadMiddleware.__call__
    mw_calls,          \* how many times get_response was invoked
    mw_downstream,     \* the response get_response gives for the request
    mw_response        \* what __call__ returned, or the exception it raised

mwVars == <<mw_request, mw_pc, mw_calls, mw_downstream, mw_response>>

(***************************************************************************)
(* State of the batch endpoint (src/foreclosure_api/views.py).             *)
(***************************************************************************)
VARIABLES
    b_body,            \* request.body
    posting_ids,       \* line 535
    b_pc,              \* position in get_batch_auction_details
    b_k,               \* index of the posting id the loop of line 545 is at
    results,           \* line 542
    errors,            \* line 543
    b_response         \* the response returned

bVars == <<b_body, posting_ids, b_pc, b_k, results, errors, b_response>>

(***************************************************************************)
(* State of the browser sessions (src/foreclosure_api/browser_client.py):  *)
(* each endpoint call e opens a ForeclosureBrowserClient of its own.       *)
(***************************************************************************)
Sess == {"e1", "e2"}

VARIABLES
    e_pc,                \* position of each endpoint call
    driver,              \* self.driver of the client of each call
    temp_user_data_dir,  \* self.temp_user_data_dir of the client of each call
    e_exc,               \* the exception propagating in each call
    e_response,          \* the response of each call
    chrome_dirs,         \* the user-data directories that exist
    chrome_procs         \* the Chrome drivers that are running

eVars == <<e_pc, driver, temp_user_data_dir, e_exc, e_response, chrome_dirs, chrome_procs>>

vars == <<ytVars, mcVars, mwVars, bVars, eVars>>

\* what the steps of one subsystem leave alone
notYt == <<mcVars, mwVars, bVars, eVars>>
notMc == <<ytVars, mwVars, bVars, eVars>>
notMw == <<ytVars, mcVars, bVars, eVars>>
notB == <<ytVars, mcVars, mwVars, eVars>>
notE == <<ytVars, mcVars, mwVars, bVars>>

(***************************************************************************)
(* Request values.                                                         *)
(***************************************************************************)
S_url == <<"u">>
S_320 == <<"3", "2", "0">>
S_256 == <<"2", "5", "6">>
S_720 == <<"7", "2", "0">>
S_h264 == <<"h", "2", "6", "4">>
\* the heights of the comment at line 120
Heights == {<<"2", "1", "6", "0">>, <<"1", "4", "4", "0">>, <<"1", "0", "8", "0">>,
            S_720, <<"4", "8", "0">>, <<"3", "6", "0">>, <<"2", "4", "0">>,
            <<"1", "4", "4">>}

\* request.data with every key at the default of its .get (lines 114-138)
DefaultRequest ==
    [url |-> PyStr(S_url),
     type |-> PyStr(S_video),
     video_quality |-> PyStr(S_best),
     video_format |-> PyStr(S_mp4),
     video_codec |-> PyStr(S_auto),
     audio_quality |-> PyStr(S_320),
     audio_format |-> PyStr(S_mp3),
     file_size_limit |-> PyNone,
     include_subtitles |-> FALSE,
     include_thumbnail |-> FALSE,
     include_metadata |-> TRUE]

\* values a client can send for each key
TypeValues == {PyStr(S_video), PyStr(S_audio), PyStr(<<"x">>)}
QualityValues ==
    {PyStr(h) : h \in Heights}
    \cup {PyStr(S_best), PyStr(S_worst), PyStr(S_720 \o <<"p">>), PyStr(<<>>),
          PyInt(720), PyNone}
ContainerValues ==
    {PyStr(S_mp4), PyStr(S_auto), PyStr(S_mkv), PyStr(S_webm), PyStr(<<>>),
     PyStr(S_avi), PyStr(S_mov), PyStr(S_flv)}
CodecValues == {PyStr(S_auto), PyStr(S_h264)}
SizeLimitValues == {PyNone, PyInt(0), PyInt(100)}
AudioQualityValues == {PyStr(S_320), PyStr(S_256), PyInt(256)}
AudioFormatValues == {PyStr(S_mp3), PyStr(S_flac)}

\* requests for video (or an unrecognised type) and requests for audio
VideoRequests ==
    {[DefaultRequest EXCEPT !.type = t, !.video_quality = q, !.video_format = c,
                            !.video_codec = k, !.file_size_limit = z,
                            !.include_subtitles = s, !.include_thumbnail = th,
                            !.include_metadata = m] :
        t \in TypeValues \ {PyStr(S_audio)}, q \in QualityValues,
        c \in ContainerValues, k \in CodecValues, z \in {PyNone, PyInt(100)},
        s \in BOOLEAN, th \in BOOLEAN, m \in BOOLEAN}
AudioRequests ==
    {[DefaultRequest EXCEPT !.type = PyStr(S_audio), !.video_quality = q,
                            !.audio_quality = aq, !.audio_format = af,
                            !.include_subtitles = s, !.include_thumbnail = th,
                            !.include_metadata = m] :
        q \in {PyStr(S_best), PyInt(720)}, aq \in AudioQualityValues,
        af \in AudioFormatValues, s \in BOOLEAN, th \in BOOLEAN, m \in BOOLEAN}
BuildRequests == VideoRequests \cup AudioRequests

\* the requests the fallback loop is explored with
EngineRequests ==
    {[DefaultRequest EXCEPT !.url = PyNone]}
    \cup {[DefaultRequest EXCEPT !.type = t, !.video_quality = q] :
            t \in {PyStr(S_video), PyStr(S_audio)}, q \in {PyStr(S_720), PyInt(720)}}

(***************************************************************************)
(* Initial states: the requests of `active' have arrived, nothing has run. *)
(***************************************************************************)
InitOf(active, domain, cookieValues) ==
    /\ \E q \in [active -> domain] :
        req = [r \in Reqs |-> IF r \in active THEN q[r] ELSE DefaultRequest]
    /\ pc = [r \in Reqs |-> IF r \in active THEN "start" ELSE "idle"]
    /\ temp_dir = [r \in Reqs |-> "none"]
    /\ ydl_opts = [r \in Reqs |-> EmptyDict]
    /\ strategies = [r \in Reqs |-> <<>>]
    /\ i = [r \in Reqs |-> 0]
    /\ info = [r \in Reqs |-> PyNone]
    /\ last_error = [r \in Reqs |-> PyNone]
    /\ exc = [r \in Reqs |-> PyNone]
    /\ main_file = [r \in Reqs |-> PyNone]
    /\ response = [r \in Reqs |-> PyNone]
    /\ calls = [r \in Reqs |-> <<>>]
    /\ cookies \in cookieValues
    /\ dirs = {}
    /\ files = [d \in DirIds |-> {}]

(***************************************************************************)
(* YouTubeDownloadView.post, step by step.                                 *)
(***************************************************************************)
\* lines 114-149: read the request; without a url answer 400
Post(r) ==
    /\ pc[r] = "start"
    /\ IF ~Truthy(req[r].url)
       THEN /\ response' = [response EXCEPT ![r] = UrlRequired]
            /\ pc' = [pc EXCEPT ![r] = "done"]
       ELSE /\ pc' = [pc EXCEPT ![r] = "mkdtemp"]
            /\ UNCHANGED response
    /\ UNCHANGED notYt
    /\ UNCHANGED <<req, temp_dir, ydl_opts, strategies, i, info, last_error, exc,
                   main_file, calls, cookies, dirs, files>>

\* the directory is a fixed path, whether or not it already exists
EnterTempDir_Shared(r) ==
    /\ pc[r] = "mkdtemp"
    /\ dirs' = dirs \cup {"tmp1"}
    /\ temp_dir' = [temp_dir EXCEPT ![r] = "tmp1"]
    /\ pc' = [pc EXCEPT ![r] = "build"]
    /\ UNCHANGED notYt
    /\ UNCHANGED <<req, ydl_opts, strategies, i, info, last_error, exc,
                   main_file, response, calls, cookies, files>>

\* line 153: tempfile.TemporaryDirectory() creates a directory that did not exist
EnterTempDir(r) ==
    /\ pc[r] = "mkdtemp"
    /\ \E d \in DirIds \ dirs :
        /\ dirs' = dirs \cup {d}
        /\ files' = [files EXCEPT ![d] = {}]
        /\ temp_dir' = [temp_dir EXCEPT ![r] = d]
    /\ pc' = [pc EXCEPT ![r] = "build"]
    /\ UNCHANGED notYt
    /\ UNCHANGED <<req, ydl_opts, strategies, i, info, last_error, exc,
                   main_file, response, calls, cookies>>

\* lines 155-302: build the options and the strategy table
BuildOptions(r) ==
    /\ pc[r] = "build"
    /\ LET b == BuildStrategies(req[r], temp_dir[r], cookies)
       IN  IF b.ok
           THEN /\ ydl_opts' = [ydl_opts EXCEPT ![r] = b.ydl_opts]
                /\ strategies' = [strategies EXCEPT ![r] = b.strategies]
                /\ i' = [i EXCEPT ![r] = 1]
                /\ pc' = [pc EXCEPT ![r] = "attempt"]
                /\ UNCHANGED exc
           ELSE /\ exc' = [exc EXCEPT ![r] = b.exc]
                /\ pc' = [pc EXCEPT ![r] = "unwind"]
                /\ UNCHANGED <<ydl_opts, strategies, i>>
    /\ UNCHANGED notYt
    /\ UNCHANGED <<req, temp_dir, info, last_error, main_file, response, calls,
                   cookies, dirs, files>>

\* the directory a strategy's output template points to
OutDir(strategy) == strategy.outtmpl[1]

\* extract_info returns, but the loop goes on to the next strategy
AttemptSucceeds_NoBreak(r) ==
    /\ pc[r] = "attempt"
    /\ \E out \in Outputs(<<r, i[r]>>) :
        files' = [files EXCEPT ![OutDir(strategies[r][i[r]])] = Written(@, out)]
    /\ info' = [info EXCEPT ![r] = [strategy |-> i[r]]]
    /\ calls' = [calls EXCEPT ![r] = Append(@, [strategy |-> i[r], outcome |-> "ok"])]
    /\ IF i[r] < Len(strategies[r])
       THEN i' = [i EXCEPT ![r] = @ + 1] /\ UNCHANGED pc
       ELSE pc' = [pc EXCEPT ![r] = "select"] /\ UNCHANGED i
    /\ UNCHANGED notYt
    /\ UNCHANGED <<req, temp_dir, ydl_opts, strategies, last_error, exc,
                   main_file, response, cookies, dirs>>

\* lines 305-312: extract_info returns; leave the loop
AttemptSucceeds(r) ==
    /\ pc[r] = "attempt"
    /\ \E out \in Outputs(<<r, i[r]>>) :
        files' = [files EXCEPT ![OutDir(strategies[r][i[r]])] = Written(@, out)]
    /\ info' = [info EXCEPT ![r] = [strategy |-> i[r]]]
    /\ calls' = [calls EXCEPT ![r] = Append(@, [strategy |-> i[r], outcome |-> "ok"])]
    /\ pc' = [pc EXCEPT ![r] = "select"]
    /\ UNCHANGED notYt
    /\ UNCHANGED <<req, temp_dir, ydl_opts, strategies, i, last_error, exc,
                   main_file, response, cookies, dirs>>

\* extract_info raises, and only the first failure is remembered
AttemptFails_KeepFirst(r) ==
    /\ pc[r] = "attempt"
    /\ \E c \in Causes, left \in Leftovers(<<r, i[r]>>) :
        /\ files' = [files EXCEPT ![OutDir(strategies[r][i[r]])] = Written(@, left)]
        /\ last_error' = [last_error EXCEPT ![r] =
                IF @ = PyNone THEN [type |-> "DownloadError", msg |-> c] ELSE @]
        /\ calls' = [calls EXCEPT ![r] = Append(@, [strategy |-> i[r], outcome |-> c])]
    /\ IF i[r] - 1 < Len(strategies[r]) - 1
       THEN /\ i' = [i EXCEPT ![r] = @ + 1]
            /\ UNCHANGED <<pc, exc>>
       ELSE /\ exc' = [exc EXCEPT ![r] = last_error'[r]]
            /\ pc' = [pc EXCEPT ![r] = "unwind"]
            /\ UNCHANGED i
    /\ UNCHANGED notYt
    /\ UNCHANGED <<req, temp_dir, ydl_opts, strategies, info, main_file, response,
                   cookies, dirs>>

\* extract_info raises, and the same strategy is tried once more before
\* moving on
AttemptFails_Retry(r) ==
    /\ pc[r] = "attempt"
    /\ \E c \in Causes, left \in Leftovers(<<r, i[r]>>) :
        /\ files' = [files EXCEPT ![OutDir(strategies[r][i[r]])] = Written(@, left)]
        /\ last_error' = [last_error EXCEPT ![r] = [type |-> "DownloadError", msg |-> c]]
        /\ calls' = [calls EXCEPT ![r] = Append(@, [strategy |-> i[r], outcome |-> c])]
    /\ IF i[r] - 1 < Len(strategies[r]) - 1
       THEN /\ i' = [i EXCEPT ![r] = IF Len(calls[r]) % 2 = 0 THEN @ ELSE @ + 1]
            /\ UNCHANGED <<pc, exc>>
       ELSE /\ exc' = [exc EXCEPT ![r] = last_error'[r]]
            /\ pc' = [pc EXCEPT ![r] = "unwind"]
            /\ UNCHANGED i
    /\ UNCHANGED notYt
    /\ UNCHANGED <<req, temp_dir, ydl_opts, strategies, info, main_file, response,
                   cookies, dirs>>

\* lines 313-320: extract_info raises; try the next strategy or re-raise
AttemptFails(r) ==
    /\ pc[r] = "attempt"
    /\ \E c \in Causes, left \in Leftovers(<<r, i[r]>>) :
        /\ files' = [files EXCEPT ![OutDir(strategies[r][i[r]])] = Written(@, left)]
        /\ last_error' = [last_error EXCEPT ![r] = [type |-> "DownloadError", msg |-> c]]
        /\ calls' = [calls EXCEPT ![r] = Append(@, [strategy |-> i[r], outcome |-> c])]
    /\ IF i[r] - 1 < Len(strategies[r]) - 1
       THEN /\ i' = [i EXCEPT ![r] = @ + 1]
            /\ UNCHANGED <<pc, exc>>
       ELSE /\ exc' = [exc EXCEPT ![r] = last_error'[r]]
            /\ pc' = [pc EXCEPT ![r] = "unwind"]
            /\ UNCHANGED i
    /\ UNCHANGED notYt
    /\ UNCHANGED <<req, temp_dir, ydl_opts, strategies, info, main_file, response,
                   cookies, dirs>>

\* the directory is not tested for emptiness: file_sizes[0] raises on an
\* empty list
SelectFile_NoEmptyCheck(r) ==
    /\ pc[r] = "select"
    /\ IF files[temp_dir[r]] = {}
       THEN /\ exc' = [exc EXCEPT ![r] = [type |-> "IndexError",
                                           msg |-> "list index out of range"]]
            /\ pc' = [pc EXCEPT ![r] = "unwind"]
            /\ UNCHANGED main_file
       ELSE /\ \E f \in LargestFiles(files[temp_dir[r]]) :
                main_file' = [main_file EXCEPT ![r] = f]
            /\ pc' = [pc EXCEPT ![r] = "read"]
            /\ UNCHANGED exc
    /\ UNCHANGED notYt
    /\ UNCHANGED <<req, temp_dir, ydl_opts, strategies, i, info, last_error,
                   response, calls, cookies, dirs, files>>

\* lines 323-345: list the directory; answer 500 when it is empty, else
\* pick the largest file
SelectFile(r) ==
    /\ pc[r] = "select"
    /\ IF files[temp_dir[r]] = {}
       THEN /\ response' = [response EXCEPT ![r] = DownloadFailed]
            /\ pc' = [pc EXCEPT ![r] = "exit_with"]
            /\ UNCHANGED main_file
       ELSE /\ \E f \in LargestFiles(files[temp_dir[r]]) :
                main_file' = [main_file EXCEPT ![r] = f]
            /\ pc' = [pc EXCEPT ![r] = "read"]
            /\ UNCHANGED response
    /\ UNCHANGED notYt
    /\ UNCHANGED <<req, temp_dir, ydl_opts, strategies, i, info, last_error, exc,
                   calls, cookies, dirs, files>>

\* lines 348-389: read the file and build the response
ReadFile(r) ==
    /\ pc[r] = "read"
    /\ response' = [response EXCEPT ![r] = FileResponse(req[r], main_file[r])]
    /\ pc' = [pc EXCEPT ![r] = "exit_with"]
    /\ UNCHANGED notYt
    /\ UNCHANGED <<req, temp_dir, ydl_opts, strategies, i, info, last_error, exc,
                   main_file, calls, cookies, dirs, files>>

\* lines 348-349: open or read raises
ReadFails(r) ==
    /\ pc[r] = "read"
    /\ exc' = [exc EXCEPT ![r] = [type |-> "OSError", msg |-> "read failed"]]
    /\ pc' = [pc EXCEPT ![r] = "unwind"]
    /\ UNCHANGED notYt
    /\ UNCHANGED <<req, temp_dir, ydl_opts, strategies, i, info, last_error,
                   main_file, response, calls, cookies, dirs, files>>

\* TemporaryDirectory.__exit__ removes the directory and all it holds
Removed(r) ==
    /\ dirs' = dirs \ {temp_dir[r]}
    /\ files' = [files EXCEPT ![temp_dir[r]] = {}]

\* line 153: the with block is left by a return
ExitWith(r) ==
    /\ pc[r] = "exit_with"
    /\ Removed(r)
    /\ pc' = [pc EXCEPT ![r] = "done"]
    /\ UNCHANGED notYt
    /\ UNCHANGED <<req, temp_dir, ydl_opts, strategies, i, info, last_error, exc,
                   main_file, response, calls, cookies>>

\* the with block is left by an exception and the directory stays
Unwind_NoCleanup(r) ==
    /\ pc[r] = "unwind"
    /\ pc' = [pc EXCEPT ![r] = "except"]
    /\ UNCHANGED notYt
    /\ UNCHANGED <<req, temp_dir, ydl_opts, strategies, i, info, last_error, exc,
                   main_file, response, calls, cookies, dirs, files>>

\* line 153: the with block is left by an exception
Unwind(r) ==
    /\ pc[r] = "unwind"
    /\ Removed(r)
    /\ pc' = [pc EXCEPT ![r] = "except"]
    /\ UNCHANGED notYt
    /\ UNCHANGED <<req, temp_dir, ydl_opts, strategies, i, info, last_error, exc,
                   main_file, response, calls, cookies>>

\* lines 391-398: the handler answers 500 with str(e)
Except(r) ==
    /\ pc[r] = "except"
    /\ response' = [response EXCEPT ![r] = ErrorResponse(exc[r])]
    /\ pc' = [pc EXCEPT ![r] = "done"]
    /\ UNCHANGED notYt
    /\ UNCHANGED <<req, temp_dir, ydl_opts, strategies, i, info, last_error, exc,
                   main_file, calls, cookies, dirs, files>>

(***************************************************************************)
(* A subsystem that serves no request.                                     *)
(***************************************************************************)
YtIdle == InitOf({}, {DefaultRequest}, {FALSE})

MwIdle ==
    /\ mw_request = [content_type |-> PyNone, content_length |-> PyNone]
    /\ mw_pc = "idle"
    /\ mw_calls = 0
    /\ mw_downstream = PyNone
    /\ mw_response = PyNone

BIdle ==
    /\ b_body = [json |-> FALSE, has |-> FALSE, postingIds |-> <<>>]
    /\ posting_ids = <<>>
    /\ b_pc = "idle"
    /\ b_k = 0
    /\ results = <<>>
    /\ errors = <<>>
    /\ b_response = PyNone

EIdle ==
    /\ e_pc = [e \in Sess |-> "idle"]
    /\ driver = [e \in Sess |-> PyNone]
    /\ temp_user_data_dir = [e \in Sess |-> PyNone]
    /\ e_exc = [e \in Sess |-> ""]
    /\ e_response = [e \in Sess |-> PyNone]
    /\ chrome_dirs = {}
    /\ chrome_procs = {}

(***************************************************************************)
(* The media converter: MediaConvertView.post and                          *)
(* ConversionStatusView.get (src/media_converter/views.py).                *)
(***************************************************************************)
\* serializers.py line 8: the largest upload the serializer accepts
FileSizeLimit == 524288000

\* str(uuid.uuid4()) of lines 148 and 160: a value no other call draws,
\* named after the request that draws it
TempIdOf(c) == IF c = "c1" THEN <<"u", "1">> ELSE <<"u", "2">>
TaskIdOf_Same(c) == <<"t", "1">>
TaskIdOf(c) == IF c = "c1" THEN <<"t", "1">> ELSE <<"t", "2">>
TaskIds == {TaskIdOf(c) : c \in ConvReqs} \cup {<<"t", "0">>}

\* the file an earlier analyze request left in temp_uploads, and its temp_id
S_u0 == <<"u", "0">>
UploadName(id, ext) == id \o <<".">> \o ext
Uploaded == {UploadName(S_u0, S_mp4)}

\* line 131: the names matching temp_dir.glob(f"{temp_id}.*"), for a temp_id
\* without glob metacharacters
glob(names, temp_id) ==
    {n \in names : /\ Len(n) > Len(temp_id)
                   /\ SubSeq(n, 1, Len(temp_id) + 1) = temp_id \o <<".">>}

\* MediaUploadSerializer.is_valid (serializers.py lines 3-11)
is_valid(file) == file # PyNone /\ file.size <= FileSizeLimit

\* the options of a request: a JSON object with or without trim times, or
\* a JSON number
Options(t, start, end) == [t |-> t, start_time |-> start, end_time |-> end]
NoOptions == Options("dict", PyNone, PyNone)
\* float(x) of utils.py line 266 raises for a non-numeric string
float_raises(x) == x.t = "str" /\ ~isdigit(x.s)

\* utils.py lines 132-270: whether build_ffmpeg_command raises.  Every path
\* tests `'start_time' in options', a TypeError for a number; line 266
\* converts the trim times with float
build_ffmpeg_command_raises(options) ==
    \/ options.t # "dict"
    \/ /\ options.start_time # PyNone
       /\ options.end_time # PyNone
       /\ (float_raises(options.end_time) \/ float_raises(options.start_time))

\* line 207
S_media_conversions == <<"/", "m", "e", "d", "i", "a", "/", "c", "o", "n", "v", "e", "r", "s", "i", "o", "n", "s", "/">>
download_url(tid, output_format) == S_media_conversions \o tid \o <<".">> \o Format(output_format)

\* lines 166-172
NewTask(c) ==
    [status |-> "pending", progress |-> 0, input_path |-> input_path[c],
     output_path |-> TaskIdOf(c) \o <<".">> \o Format(mreq[c].output_format),
     output_format |-> mreq[c].output_format]

\* d[k] = v of a Python dict
SetItem(d, k, v) == [x \in DOMAIN d \cup {k} |-> IF x = k THEN v ELSE d[x]]

mcStatus == <<sreq, spc, response_data, sresponse>>

\* lines 117-128: read the request; without output_format answer 400
ConvertPost(c) ==
    /\ mpc[c] = "start"
    /\ IF ~Truthy(mreq[c].output_format)
       THEN /\ mresponse' = [mresponse EXCEPT ![c] =
                    [code |-> 400, error |-> "output_format is required"]]
            /\ mpc' = [mpc EXCEPT ![c] = "done"]
       ELSE /\ mpc' = [mpc EXCEPT ![c] =
                    IF Truthy(mreq[c].temp_id) THEN "glob" ELSE "validate"]
            /\ UNCHANGED mresponse
    /\ UNCHANGED <<conversion_tasks, temp_uploads, mreq, input_path, task_id, mexc>>
    /\ UNCHANGED mcStatus
    /\ UNCHANGED notMc

\* lines 130-140: look the earlier upload up; 404 when there is none
UseTempFile(c) ==
    /\ mpc[c] = "glob"
    /\ IF glob(temp_uploads, mreq[c].temp_id.s) = {}
       THEN /\ mresponse' = [mresponse EXCEPT ![c] =
                    [code |-> 404, error |-> "Temporary file not found"]]
            /\ mpc' = [mpc EXCEPT ![c] = "done"]
            /\ UNCHANGED input_path
       ELSE /\ \E n \in glob(temp_uploads, mreq[c].temp_id.s) :
                    input_path' = [input_path EXCEPT ![c] = PyStr(n)]
            /\ mpc' = [mpc EXCEPT ![c] = "create"]
            /\ UNCHANGED mresponse
    /\ UNCHANGED <<conversion_tasks, temp_uploads, mreq, task_id, mexc>>
    /\ UNCHANGED mcStatus
    /\ UNCHANGED notMc

\* lines 143-145: a new upload must pass the serializer
ValidateUpload(c) ==
    /\ mpc[c] = "validate"
    /\ IF ~is_valid(mreq[c].file)
       THEN /\ mresponse' = [mresponse EXCEPT ![c] = [code |-> 400, error |-> "file"]]
            /\ mpc' = [mpc EXCEPT ![c] = "done"]
       ELSE /\ mpc' = [mpc EXCEPT ![c] = "upload"]
            /\ UNCHANGED mresponse
    /\ UNCHANGED <<conversion_tasks, temp_uploads, mreq, input_path, task_id, mexc>>
    /\ UNCHANGED mcStatus
    /\ UNCHANGED notMc

\* lines 147-157: write the upload to temp_uploads under a new temp_id
SaveUpload(c) ==
    /\ mpc[c] = "upload"
    /\ LET n == UploadName(TempIdOf(c), mreq[c].file.ext)
       IN  /\ temp_uploads' = temp_uploads \cup {n}
           /\ input_path' = [input_path EXCEPT ![c] = PyStr(n)]
    /\ mpc' = [mpc EXCEPT ![c] = "create"]
    /\ UNCHANGED <<conversion_tasks, mreq, task_id, mexc, mresponse>>
    /\ UNCHANGED mcStatus
    /\ UNCHANGED notMc

\* lines 155-157 raise while writing: the file of line 155 exists, and the
\* handler of lines 241-246 answers 500
SaveUploadFails(c) ==
    /\ mpc[c] = "upload"
    /\ LET n == UploadName(TempIdOf(c), mreq[c].file.ext)
       IN  /\ temp_uploads' = temp_uploads \cup {n}
           /\ input_path' = [input_path EXCEPT ![c] = PyStr(n)]
    /\ mresponse' = [mresponse EXCEPT ![c] =
            [code |-> 500, error |-> "Failed to process conversion request"]]
    /\ mpc' = [mpc EXCEPT ![c] = "done"]
    /\ UNCHANGED <<conversion_tasks, mreq, task_id, mexc>>
    /\ UNCHANGED mcStatus
    /\ UNCHANGED notMc

\* every conversion request stores its task under the same id
CreateTask_SameId(c) ==
    /\ mpc[c] = "create"
    /\ task_id' = [task_id EXCEPT ![c] = PyStr(TaskIdOf_Same(c))]
    /\ conversion_tasks' = SetItem(conversion_tasks, TaskIdOf_Same(c), NewTask(c))
    /\ mpc' = [mpc EXCEPT ![c] = "build"]
    /\ UNCHANGED <<temp_uploads, mreq, input_path, mexc, mresponse>>
    /\ UNCHANGED mcStatus
    /\ UNCHANGED notMc

\* lines 160-172: a new task id and its entry, status pending
CreateTask(c) ==
    /\ mpc[c] = "create"
    /\ task_id' = [task_id EXCEPT ![c] = PyStr(TaskIdOf(c))]
    /\ conversion_tasks' = SetItem(conversion_tasks, TaskIdOf(c), NewTask(c))
    /\ mpc' = [mpc EXCEPT ![c] = "build"]
    /\ UNCHANGED <<temp_uploads, mreq, input_path, mexc, mresponse>>
    /\ UNCHANGED mcStatus
    /\ UNCHANGED notMc

\* conversion_tasks[tid][k] = v
SetField(tid, k, v) == [conversion_tasks EXCEPT ![tid] = SetItem(@, k, v)]

\* a step of post that only assigns a field of the task and moves on
Assign(c, from, k, v, to) ==
    /\ mpc[c] = from
    /\ conversion_tasks' = SetField(task_id[c].s, k, v)
    /\ mpc' = [mpc EXCEPT ![c] = to]
    /\ UNCHANGED <<temp_uploads, mreq, input_path, task_id, mexc, mresponse>>
    /\ UNCHANGED mcStatus
    /\ UNCHANGED notMc

\* lines 175-185: build the transcoder command; an exception goes to line 230
BuildCommand(c) ==
    /\ mpc[c] = "build"
    /\ IF build_ffmpeg_command_raises(mreq[c].options)
       THEN /\ mexc' = [mexc EXCEPT ![c] = "bad options"]
            /\ mpc' = [mpc EXCEPT ![c] = "except"]
       ELSE /\ mpc' = [mpc EXCEPT ![c] = "processing"]
            /\ UNCHANGED mexc
    /\ UNCHANGED <<conversion_tasks, temp_uploads, mreq, input_path, task_id, mresponse>>
    /\ UNCHANGED mcStatus
    /\ UNCHANGED notMc

\* line 188
SetProcessing(c) ==
    /\ mpc[c] = "processing"
    /\ Assign(c, "processing", "status", "processing", "progress10")
\* line 189
SetProgress10(c) ==
    /\ mpc[c] = "progress10"
    /\ Assign(c, "progress10", "progress", 10, "run")

\* lines 194-203: the transcoder runs to its exit code
RunExits(c) ==
    /\ mpc[c] = "run"
    /\ \E returncode \in {0, 1} :
        mpc' = [mpc EXCEPT ![c] = IF returncode = 0 THEN "completed" ELSE "failed"]
    /\ UNCHANGED <<conversion_tasks, temp_uploads, mreq, input_path, task_id, mexc,
                   mresponse>>
    /\ UNCHANGED mcStatus
    /\ UNCHANGED notMc

\* lines 194-201: subprocess.Popen raises (no transcoder installed)
RunRaises(c) ==
    /\ mpc[c] = "run"
    /\ mexc' = [mexc EXCEPT ![c] = "No such file or directory: 'ffmpeg'"]
    /\ mpc' = [mpc EXCEPT ![c] = "except"]
    /\ UNCHANGED <<conversion_tasks, temp_uploads, mreq, input_path, task_id, mresponse>>
    /\ UNCHANGED mcStatus
    /\ UNCHANGED notMc

\* line 205
SetCompleted(c) ==
    /\ mpc[c] = "completed"
    /\ Assign(c, "completed", "status", "completed", "progress100")
\* line 206
SetProgress100(c) ==
    /\ mpc[c] = "progress100"
    /\ Assign(c, "progress100", "progress", 100, "url")
\* line 207
SetDownloadUrl(c) ==
    /\ mpc[c] = "url"
    /\ Assign(c, "url", "download_url",
              PyStr(download_url(task_id[c].s, mreq[c].output_format)), "cleanup")

\* the input file is removed whether or not the request named a temp_id
Cleanup_Always(c) ==
    /\ mpc[c] = "cleanup"
    /\ temp_uploads' = temp_uploads \ {input_path[c].s}
    /\ mresponse' = [mresponse EXCEPT ![c] =
            [code |-> 200, task_id |-> task_id[c], status |-> "completed",
             download_url |-> conversion_tasks[task_id[c].s].download_url]]
    /\ mpc' = [mpc EXCEPT ![c] = "done"]
    /\ UNCHANGED <<conversion_tasks, mreq, input_path, task_id, mexc>>
    /\ UNCHANGED mcStatus
    /\ UNCHANGED notMc

\* lines 209-217: remove the input of a new upload and answer 200
Cleanup(c) ==
    /\ mpc[c] = "cleanup"
    /\ temp_uploads' = IF ~Truthy(mreq[c].temp_id)
                        THEN temp_uploads \ {input_path[c].s}
                        ELSE temp_uploads
    /\ mresponse' = [mresponse EXCEPT ![c] =
            [code |-> 200, task_id |-> task_id[c], status |-> "completed",
             download_url |-> conversion_tasks[task_id[c].s].download_url]]
    /\ mpc' = [mpc EXCEPT ![c] = "done"]
    /\ UNCHANGED <<conversion_tasks, mreq, input_path, task_id, mexc>>
    /\ UNCHANGED mcStatus
    /\ UNCHANGED notMc

\* line 211: os.remove raises; the exception goes to line 230
CleanupFails(c) ==
    /\ mpc[c] = "cleanup"
    /\ ~Truthy(mreq[c].temp_id)
    /\ mexc' = [mexc EXCEPT ![c] = "Permission denied"]
    /\ mpc' = [mpc EXCEPT ![c] = "except"]
    /\ UNCHANGED <<conversion_tasks, temp_uploads, mreq, input_path, task_id, mresponse>>
    /\ UNCHANGED mcStatus
    /\ UNCHANGED notMc

\* line 220
SetFailed(c) ==
    /\ mpc[c] = "failed"
    /\ Assign(c, "failed", "status", "failed", "error")

\* lines 221-228: store stderr and answer 500
SetError(c) ==
    /\ mpc[c] = "error"
    /\ conversion_tasks' = SetField(task_id[c].s, "error", "stderr")
    /\ mresponse' = [mresponse EXCEPT ![c] =
            [code |-> 500, task_id |-> task_id[c], status |-> "failed",
             error |-> "Conversion failed"]]
    /\ mpc' = [mpc EXCEPT ![c] = "done"]
    /\ UNCHANGED <<temp_uploads, mreq, input_path, task_id, mexc>>
    /\ UNCHANGED mcStatus
    /\ UNCHANGED notMc

\* line 231
ExceptFailed(c) ==
    /\ mpc[c] = "except"
    /\ Assign(c, "except", "status", "failed", "except_error")

\* lines 232-239: store str(e) and answer 500
ExceptError(c) ==
    /\ mpc[c] = "except_error"
    /\ conversion_tasks' = SetField(task_id[c].s, "error", mexc[c])
    /\ mresponse' = [mresponse EXCEPT ![c] =
            [code |-> 500, task_id |-> task_id[c], status |-> "failed",
             error |-> mexc[c]]]
    /\ mpc' = [mpc EXCEPT ![c] = "done"]
    /\ UNCHANGED <<temp_uploads, mreq, input_path, task_id, mexc>>
    /\ UNCHANGED mcStatus
    /\ UNCHANGED notMc

mcConvert == <<temp_uploads, mreq, mpc, input_path, task_id, mexc, mresponse>>

\* the lookup is a setdefault: an unknown id gets a pending entry
StatusGet_SetDefault(s) ==
    /\ spc[s] = "start"
    /\ conversion_tasks' =
            IF sreq[s] \in DOMAIN conversion_tasks THEN conversion_tasks
            ELSE SetItem(conversion_tasks, sreq[s], [status |-> "pending", progress |-> 0])
    /\ spc' = [spc EXCEPT ![s] = "status"]
    /\ UNCHANGED <<sreq, response_data, sresponse>>
    /\ UNCHANGED mcConvert
    /\ UNCHANGED notMc

\* lines 252-258: look the task up; 404 when the map has no such key
StatusGet(s) ==
    /\ spc[s] = "start"
    /\ IF sreq[s] \notin DOMAIN conversion_tasks
       THEN /\ sresponse' = [sresponse EXCEPT ![s] =
                    [code |-> 404, error |-> "Task not found"]]
            /\ spc' = [spc EXCEPT ![s] = "done"]
       ELSE /\ spc' = [spc EXCEPT ![s] = "status"]
            /\ UNCHANGED sresponse
    /\ UNCHANGED <<conversion_tasks, sreq, response_data>>
    /\ UNCHANGED mcConvert
    /\ UNCHANGED notMc

\* a step of get that copies one value into response_data and moves on
Read(s, from, k, v, to) ==
    /\ spc[s] = from
    /\ response_data' = [response_data EXCEPT ![s] = SetItem(@, k, v)]
    /\ spc' = [spc EXCEPT ![s] = to]
    /\ UNCHANGED <<conversion_tasks, sreq, sresponse>>
    /\ UNCHANGED mcConvert
    /\ UNCHANGED notMc

\* get returns response_data with status 200
Return(s, data) ==
    /\ sresponse' = [sresponse EXCEPT ![s] = [code |-> 200, data |-> data]]
    /\ spc' = [spc EXCEPT ![s] = "done"]

\* lines 260-262
ReadStatus(s) ==
    /\ spc[s] = "status"
    /\ response_data' = [response_data EXCEPT ![s] =
            [task_id |-> sreq[s], status |-> conversion_tasks[sreq[s]].status]]
    /\ spc' = [spc EXCEPT ![s] = "progress"]
    /\ UNCHANGED <<conversion_tasks, sreq, sresponse>>
    /\ UNCHANGED mcConvert
    /\ UNCHANGED notMc
\* line 263
ReadProgress(s) ==
    /\ spc[s] = "progress"
    /\ Read(s, "progress", "progress", conversion_tasks[sreq[s]].progress, "test_completed")

\* line 266
TestCompleted(s) ==
    /\ spc[s] = "test_completed"
    /\ spc' = [spc EXCEPT ![s] =
            IF conversion_tasks[sreq[s]].status = "completed" THEN "url" ELSE "test_failed"]
    /\ UNCHANGED <<conversion_tasks, sreq, response_data, sresponse>>
    /\ UNCHANGED mcConvert
    /\ UNCHANGED notMc

\* task.get('download_url')
get_download_url(task) ==
    IF "download_url" \in DOMAIN task THEN task.download_url ELSE PyNone

\* lines 267 and 271
ReadUrl(s) ==
    /\ spc[s] = "url"
    /\ response_data' = [response_data EXCEPT ![s] =
            SetItem(@, "download_url", get_download_url(conversion_tasks[sreq[s]]))]
    /\ Return(s, response_data'[s])
    /\ UNCHANGED <<conversion_tasks, sreq>>
    /\ UNCHANGED mcConvert
    /\ UNCHANGED notMc

\* lines 268 and 271
TestFailed(s) ==
    /\ spc[s] = "test_failed"
    /\ IF conversion_tasks[sreq[s]].status = "failed"
       THEN spc' = [spc EXCEPT ![s] = "error"] /\ UNCHANGED sresponse
       ELSE Return(s, response_data[s])
    /\ UNCHANGED <<conversion_tasks, sreq, response_data>>
    /\ UNCHANGED mcConvert
    /\ UNCHANGED notMc

\* task.get('error', 'Conversion failed')
get_error(task) == IF "error" \in DOMAIN task THEN task.error ELSE "Conversion failed"

\* lines 269 and 271
ReadError(s) ==
    /\ spc[s] = "error"
    /\ response_data' = [response_data EXCEPT ![s] =
            SetItem(@, "error", get_error(conversion_tasks[sreq[s]]))]
    /\ Return(s, response_data'[s])
    /\ UNCHANGED <<conversion_tasks, sreq>>
    /\ UNCHANGED mcConvert
    /\ UNCHANGED notMc

\* the conversion requests the interleavings are explored with
Upload(ext, size) == [ext |-> ext, size |-> size]
MediaRequest(temp_id, output_format, file, options) ==
    [temp_id |-> temp_id, output_format |-> output_format, file |-> file, options |-> options]
NewUploads ==
    {MediaRequest(PyNone, PyStr(S_mp4), Upload(S_mp4, 1), NoOptions)}
FromTemp ==
    {MediaRequest(PyStr(S_u0), PyStr(S_mp3), PyNone, NoOptions)}
Rejected ==
    {MediaRequest(PyNone, PyNone, Upload(S_mp4, 1), NoOptions),
     MediaRequest(PyStr(<<"z">>), PyStr(S_mp4), PyNone, NoOptions),
     MediaRequest(PyNone, PyStr(S_mp4), PyNone, NoOptions),
     MediaRequest(PyNone, PyStr(S_mp4), Upload(S_mp4, FileSizeLimit + 1), NoOptions)}
BadOptions ==
    {MediaRequest(PyStr(S_u0), PyStr(S_mp4), PyNone, Options("int", PyNone, PyNone)),
     MediaRequest(PyNone, PyStr(S_mp4), Upload(S_mp4, 1),
                  Options("dict", PyStr(<<"0">>), PyStr(<<"x">>)))}
MediaRequests == NewUploads \cup FromTemp \cup Rejected \cup BadOptions

\* no conversion or status request is being served
McIdle ==
    /\ conversion_tasks = EmptyDict
    /\ temp_uploads = Uploaded
    /\ mreq = [c \in ConvReqs |-> MediaRequest(PyNone, PyNone, PyNone, NoOptions)]
    /\ mpc = [c \in ConvReqs |-> "idle"]
    /\ input_path = [c \in ConvReqs |-> PyNone]
    /\ task_id = [c \in ConvReqs |-> PyNone]
    /\ mexc = [c \in ConvReqs |-> ""]
    /\ mresponse = [c \in ConvReqs |-> PyNone]
    /\ sreq = [s \in StatusReqs |-> <<"t", "0">>]
    /\ spc = [s \in StatusReqs |-> "idle"]
    /\ response_data = [s \in StatusReqs |-> EmptyDict]
    /\ sresponse = [s \in StatusReqs |-> PyNone]

\* two conversion requests and a status request have arrived
InitConvert ==
    /\ conversion_tasks = EmptyDict
    /\ temp_uploads = Uploaded
    /\ mreq \in [ConvReqs -> MediaRequests]
    /\ mreq["c2"] \in NewUploads \cup FromTemp
    /\ mpc = [c \in ConvReqs |-> "start"]
    /\ input_path = [c \in ConvReqs |-> PyNone]
    /\ task_id = [c \in ConvReqs |-> PyNone]
    /\ mexc = [c \in ConvReqs |-> ""]
    /\ mresponse = [c \in ConvReqs |-> PyNone]
    /\ sreq \in [StatusReqs -> TaskIds]
    /\ spc = [s \in StatusReqs |-> "start"]
    /\ response_data = [s \in StatusReqs |-> EmptyDict]
    /\ sresponse = [s \in StatusReqs |-> PyNone]
    /\ YtIdle /\ MwIdle /\ BIdle /\ EIdle

NextConvert ==
    \/ \E c \in ConvReqs :
        \/ ConvertPost(c)
        \/ UseTempFile(c)
        \/ ValidateUpload(c)
        \/ SaveUpload(c)
        \/ SaveUploadFails(c)
        \/ CreateTask(c)
        \/ BuildCommand(c)
        \/ SetProcessing(c)
        \/ SetProgress10(c)
        \/ RunExits(c)
        \/ RunRaises(c)
        \/ SetCompleted(c)
        \/ SetProgress100(c)
        \/ SetDownloadUrl(c)
        \/ Cleanup(c)
        \/ CleanupFails(c)
        \/ SetFailed(c)
        \/ SetError(c)
        \/ ExceptFailed(c)
        \/ ExceptError(c)
    \/ \E s \in StatusReqs :
        \/ StatusGet(s)
        \/ ReadStatus(s)
        \/ ReadProgress(s)
        \/ TestCompleted(s)
        \/ ReadUrl(s)
        \/ TestFailed(s)
        \/ ReadError(s)

ConvertSpec == InitConvert /\ [][NextConvert]_vars

(***************************************************************************)
(* The upload gate: LargeFileUploadMiddleware.__call__                     *)
(* (src/media_converter/middleware.py).                                    *)
(***************************************************************************)
S_multipart_form_data == <<"m", "u", "l", "t", "i", "p", "a", "r", "t", "/", "f", "o", "r", "m", "-", "d", "a", "t", "a">>
S_multipart_mixed == <<"m", "u", "l", "t", "i", "p", "a", "r", "t", "/", "m", "i", "x", "e", "d">>
S_application_json == <<"a", "p", "p", "l", "i", "c", "a", "t", "i", "o", "n", "/", "j", "s", "o", "n">>
S_abc == <<"a", "b", "c">>

\* line 17: the value getattr falls back to
DATA_UPLOAD_MAX_MEMORY_SIZE == 2621440

\* sub in s, of two strings
Contains(sub, s) ==
    \E k \in 0..(Len(s) - Len(sub)) : SubSeq(s, k + 1, k + Len(sub)) = sub

\* the digits of a decimal literal, after its sign
Unsigned(s) == IF Len(s) > 0 /\ s[1] \in {"+", "-"} THEN Tail(s) ELSE s

\* int(s) raises ValueError
int_raises(s) == ~isdigit(Unsigned(s))

RECURSIVE DigitsValue(_)
DigitsValue(s) ==
    IF Len(s) = 0 THEN 0
    ELSE 10 * DigitsValue(SubSeq(s, 1, Len(s) - 1))
         + ((CHOOSE d \in 1..10 : Digits[d] = s[Len(s)]) - 1)

\* int(s) of a string int accepts
int(s) == IF s[1] = "-" THEN 0 - DigitsValue(Unsigned(s)) ELSE DigitsValue(Unsigned(s))

\* line 19
TooLarge_AtLeast(content_length, max_size) == content_length >= max_size
TooLarge(content_length, max_size) == content_length > max_size

\* a response, and the layer that made it
HttpResponse(code, by) == [code |-> code, by |-> by]

\* lines 20-22
JsonResponse413 == HttpResponse(413, "middleware")

\* line 13
TestContentType ==
    /\ mw_pc = "start"
    /\ mw_pc' = IF Truthy(mw_request.content_type)
                   /\ Contains(S_multipart_form_data, mw_request.content_type.s)
                THEN "content_length" ELSE "get_response"
    /\ UNCHANGED <<mw_request, mw_calls, mw_downstream, mw_response>>
    /\ UNCHANGED notMw

\* lines 14-15
GetContentLength ==
    /\ mw_pc = "content_length"
    /\ mw_pc' = IF Truthy(mw_request.content_length) THEN "int" ELSE "get_response"
    /\ UNCHANGED <<mw_request, mw_calls, mw_downstream, mw_response>>
    /\ UNCHANGED notMw

\* line 16, when int raises: the exception leaves __call__
IntRaises ==
    /\ mw_pc = "int"
    /\ int_raises(mw_request.content_length.s)
    /\ mw_pc' = "raised"
    /\ mw_response' = [raised |-> "ValueError"]
    /\ UNCHANGED <<mw_request, mw_calls, mw_downstream>>
    /\ UNCHANGED notMw

\* lines 16-22
RejectTooLarge ==
    /\ mw_pc = "int"
    /\ ~int_raises(mw_request.content_length.s)
    /\ TooLarge(int(mw_request.content_length.s), DATA_UPLOAD_MAX_MEMORY_SIZE)
    /\ mw_pc' = "done"
    /\ mw_response' = JsonResponse413
    /\ UNCHANGED <<mw_request, mw_calls, mw_downstream>>
    /\ UNCHANGED notMw

\* lines 16-19, when the length is within the limit
WithinLimit ==
    /\ mw_pc = "int"
    /\ ~int_raises(mw_request.content_length.s)
    /\ ~TooLarge(int(mw_request.content_length.s), DATA_UPLOAD_MAX_MEMORY_SIZE)
    /\ mw_pc' = "get_response"
    /\ UNCHANGED <<mw_request, mw_calls, mw_downstream, mw_response>>
    /\ UNCHANGED notMw

\* lines 24-25
GetResponse ==
    /\ mw_pc = "get_response"
    /\ mw_calls' = mw_calls + 1
    /\ mw_response' = mw_downstream
    /\ mw_pc' = "done"
    /\ UNCHANGED <<mw_request, mw_downstream>>
    /\ UNCHANGED notMw

\* request.content_type: the media type of the Content-Type header, ''
\* when there is none
ContentTypes ==
    {PyStr(<<>>), PyStr(S_application_json), PyStr(S_multipart_form_data),
     PyStr(S_multipart_mixed)}

\* request.META.get('CONTENT_LENGTH'): the header as the server passed it
ContentLengths ==
    {PyNone, PyStr(<<>>), PyStr(S_abc), PyStr(<<"0">>), PyStr(<<"-", "1">>),
     PyStr(Decimal(DATA_UPLOAD_MAX_MEMORY_SIZE - 1)),
     PyStr(Decimal(DATA_UPLOAD_MAX_MEMORY_SIZE)),
     PyStr(Decimal(DATA_UPLOAD_MAX_MEMORY_SIZE + 1)),
     PyStr(Decimal(FileSizeLimit))}

\* what the rest of the stack answers
DownstreamResponses == {HttpResponse(code, "view") : code \in {200, 400, 404, 413, 500}}

InitGate ==
    /\ mw_request \in [content_type : ContentTypes, content_length : ContentLengths]
    /\ mw_pc = "start"
    /\ mw_calls = 0
    /\ mw_downstream \in DownstreamResponses
    /\ mw_response = PyNone
    /\ YtIdle /\ McIdle /\ BIdle /\ EIdle

NextGate ==
    \/ TestContentType
    \/ GetContentLength
    \/ IntRaises
    \/ RejectTooLarge
    \/ WithinLimit
    \/ GetResponse

GateSpec == InitGate /\ [][NextGate]_vars

(***************************************************************************)
(* The batch endpoint: get_batch_auction_details                           *)
(* (src/foreclosure_api/views.py).                                         *)
(***************************************************************************)
MaxIds == 3

\* the posting ids a client names
PostingIds == {PyInt(1), PyInt(2)}

\* request.body: not JSON, an object without postingIds, or an object with
\* a list of ids
InvalidJson == [json |-> FALSE, has |-> FALSE, postingIds |-> <<>>]
NoPostingIds == [json |-> TRUE, has |-> FALSE, postingIds |-> <<>>]
WithPostingIds(ids) == [json |-> TRUE, has |-> TRUE, postingIds |-> ids]
IdLists == UNION {[1..n -> PostingIds] : n \in 0..MaxIds}
Bodies == {InvalidJson, NoPostingIds} \cup {WithPostingIds(ids) : ids \in IdLists}

\* data.get("postingIds", []), line 535
get_postingIds(data) == IF data.has THEN data.postingIds ELSE <<>>

\* str(e) of what requests.get, raise_for_status or the parser raised
FetchErrors == {"ConnectionError", "HTTPError"}
ParseErrors == {"AttributeError"}

\* lines 533-543
BatchPost ==
    /\ b_pc = "start"
    /\ IF ~b_body.json
       THEN /\ b_pc' = "done"
            /\ b_response' = [code |-> 400, success |-> FALSE, error |-> "Invalid JSON in request body"]
            /\ UNCHANGED <<posting_ids, results, errors>>
       ELSE /\ posting_ids' = get_postingIds(b_body)
            /\ IF Len(posting_ids') = 0
               THEN /\ b_pc' = "done"
                    /\ b_response' = [code |-> 400, success |-> FALSE, error |-> "postingIds array is required"]
                    /\ UNCHANGED <<results, errors>>
               ELSE /\ b_pc' = "loop"
                    /\ results' = <<>>
                    /\ errors' = <<>>
                    /\ UNCHANGED b_response
    /\ UNCHANGED <<b_body, b_k>>
    /\ UNCHANGED notB

\* the loop of line 545 has an id left: posting_ids[b_k + 1]
HasNext == b_pc = "loop" /\ b_k < Len(posting_ids)
posting_id == posting_ids[b_k + 1]

FetchRaises_Break ==
    /\ HasNext
    /\ \E e \in FetchErrors :
        errors' = Append(errors, [postingId |-> posting_id, error |-> e])
    /\ b_k' = Len(posting_ids)
    /\ UNCHANGED <<b_body, posting_ids, b_pc, results, b_response>>
    /\ UNCHANGED notB

\* lines 547-549 raise, lines 561-562 record the error and the loop goes on
FetchRaises ==
    /\ HasNext
    /\ \E e \in FetchErrors :
        errors' = Append(errors, [postingId |-> posting_id, error |-> e])
    /\ b_k' = b_k + 1
    /\ UNCHANGED <<b_body, posting_ids, b_pc, results, b_response>>
    /\ UNCHANGED notB

\* lines 547-552: the page says "No data found"
NoDataFound ==
    /\ HasNext
    /\ results' = Append(results, [postingId |-> posting_id, dataFound |-> FALSE])
    /\ b_k' = b_k + 1
    /\ UNCHANGED <<b_body, posting_ids, b_pc, errors, b_response>>
    /\ UNCHANGED notB

\* lines 547-560: the page is parsed
ParseNotice ==
    /\ HasNext
    /\ results' = Append(results, [postingId |-> posting_id, dataFound |-> TRUE,
                                   auctionNotice |-> "notice"])
    /\ b_k' = b_k + 1
    /\ UNCHANGED <<b_body, posting_ids, b_pc, errors, b_response>>
    /\ UNCHANGED notB

\* line 554 raises, lines 561-562 record the error
ParseRaises ==
    /\ HasNext
    /\ \E e \in ParseErrors :
        errors' = Append(errors, [postingId |-> posting_id, error |-> e])
    /\ b_k' = b_k + 1
    /\ UNCHANGED <<b_body, posting_ids, b_pc, results, b_response>>
    /\ UNCHANGED notB

\* lines 564-572
BatchReturn ==
    /\ b_pc = "loop"
    /\ b_k = Len(posting_ids)
    /\ b_pc' = "done"
    /\ b_response' = [code |-> 200, success |-> TRUE, results |-> results,
                      errors |-> errors, totalProcessed |-> Len(results),
                      totalErrors |-> Len(errors)]
    /\ UNCHANGED <<b_body, posting_ids, b_k, results, errors>>
    /\ UNCHANGED notB

InitBatch ==
    /\ b_body \in Bodies
    /\ posting_ids = <<>>
    /\ b_pc = "start"
    /\ b_k = 0
    /\ results = <<>>
    /\ errors = <<>>
    /\ b_response = PyNone
    /\ YtIdle /\ McIdle /\ MwIdle /\ EIdle

NextBatch ==
    \/ BatchPost
    \/ FetchRaises
    \/ NoDataFound
    \/ ParseNotice
    \/ ParseRaises
    \/ BatchReturn

BatchSpec == InitBatch /\ [][NextBatch]_vars

(***************************************************************************)
(* The browser sessions: ForeclosureBrowserClient                          *)
(* (src/foreclosure_api/browser_client.py) as get_city_list opens it       *)
(* (src/foreclosure_api/views.py, lines 406-443).                          *)
(***************************************************************************)
\* tempfile.mkdtemp(prefix="chrome_foreclosure_"): a directory no other
\* call is given, named after the call
ChromeDirOf(e) == IF e = "e1" THEN <<"c", "1">> ELSE <<"c", "2">>

\* the Chrome the driver of a call controls
ChromeOf(e) == IF e = "e1" THEN <<"d", "1">> ELSE <<"d", "2">>

\* the endpoint goes on to the next position
Goto(e, to) == e_pc' = [e_pc EXCEPT ![e] = to]

\* an exception starts to propagate
Raise(e, name) == e_exc' = [e_exc EXCEPT ![e] = name]

\* browser_client.py lines 23-28, at views.py line 413
NewClient(e) ==
    /\ e_pc[e] = "start"
    /\ driver' = [driver EXCEPT ![e] = PyNone]
    /\ temp_user_data_dir' = [temp_user_data_dir EXCEPT ![e] = PyNone]
    /\ Goto(e, "mkdtemp")
    /\ UNCHANGED <<e_exc, e_response, chrome_dirs, chrome_procs>>
    /\ UNCHANGED notE

\* __enter__, start_browser lines 32-78
Mkdtemp(e) ==
    /\ e_pc[e] = "mkdtemp"
    /\ chrome_dirs' = chrome_dirs \cup {ChromeDirOf(e)}
    /\ temp_user_data_dir' = [temp_user_data_dir EXCEPT ![e] = PyStr(ChromeDirOf(e))]
    /\ Goto(e, "chrome")
    /\ UNCHANGED <<driver, e_exc, e_response, chrome_procs>>
    /\ UNCHANGED notE

\* line 76 raises: __enter__ raises, so __exit__ is not called
MkdtempRaises(e) ==
    /\ e_pc[e] = "mkdtemp"
    /\ Raise(e, "OSError")
    /\ Goto(e, "except")
    /\ UNCHANGED <<driver, temp_user_data_dir, e_response, chrome_dirs, chrome_procs>>
    /\ UNCHANGED notE

\* lines 87-88
StartChrome(e) ==
    /\ e_pc[e] = "chrome"
    /\ chrome_procs' = chrome_procs \cup {ChromeOf(e)}
    /\ driver' = [driver EXCEPT ![e] = PyStr(ChromeOf(e))]
    /\ Goto(e, "script")
    /\ UNCHANGED <<temp_user_data_dir, e_exc, e_response, chrome_dirs>>
    /\ UNCHANGED notE

\* line 87 or 88 raises (no driver to install, Chrome does not start):
\* __enter__ raises, so __exit__ is not called
StartChromeRaises(e) ==
    /\ e_pc[e] = "chrome"
    /\ Raise(e, "WebDriverException")
    /\ Goto(e, "except")
    /\ UNCHANGED <<driver, temp_user_data_dir, e_response, chrome_dirs, chrome_procs>>
    /\ UNCHANGED notE

\* lines 91-93, and __enter__ returns
ExecuteScript(e) ==
    /\ e_pc[e] = "script"
    /\ Goto(e, "with")
    /\ UNCHANGED <<driver, temp_user_data_dir, e_exc, e_response, chrome_dirs, chrome_procs>>
    /\ UNCHANGED notE

\* line 91 raises: __enter__ raises, so __exit__ is not called
ExecuteScriptRaises(e) ==
    /\ e_pc[e] = "script"
    /\ Raise(e, "WebDriverException")
    /\ Goto(e, "except")
    /\ UNCHANGED <<driver, temp_user_data_dir, e_response, chrome_dirs, chrome_procs>>
    /\ UNCHANGED notE

\* views.py lines 414-431: the block reaches its return
WithBlock(e) ==
    /\ e_pc[e] = "with"
    /\ e_response' = [e_response EXCEPT ![e] = [code |-> 200, success |-> TRUE]]
    /\ Goto(e, "exit")
    /\ UNCHANGED <<driver, temp_user_data_dir, e_exc, chrome_dirs, chrome_procs>>
    /\ UNCHANGED notE

\* views.py lines 414-431: the block raises
WithBlockRaises(e) ==
    /\ e_pc[e] = "with"
    /\ Raise(e, "Exception")
    /\ Goto(e, "exit")
    /\ UNCHANGED <<driver, temp_user_data_dir, e_response, chrome_dirs, chrome_procs>>
    /\ UNCHANGED notE

\* __exit__, stop_browser lines 97-100
Quit(e) ==
    /\ e_pc[e] = "exit"
    /\ IF Truthy(driver[e])
       THEN /\ chrome_procs' = chrome_procs \ {driver[e].s}
            /\ driver' = [driver EXCEPT ![e] = PyNone]
       ELSE UNCHANGED <<chrome_procs, driver>>
    /\ Goto(e, "rmtree")
    /\ UNCHANGED <<temp_user_data_dir, e_exc, e_response, chrome_dirs>>
    /\ UNCHANGED notE

\* line 99 raises: __exit__ raises out of the with statement
QuitRaises(e) ==
    /\ e_pc[e] = "exit"
    /\ Truthy(driver[e])
    /\ Raise(e, "WebDriverException")
    /\ Goto(e, "except")
    /\ UNCHANGED <<driver, temp_user_data_dir, e_response, chrome_dirs, chrome_procs>>
    /\ UNCHANGED notE

\* lines 103-110, then the with statement ends: the block's return value
\* is returned (views.py line 427) or its exception goes on
Rmtree(e) ==
    /\ e_pc[e] = "rmtree"
    /\ IF Truthy(temp_user_data_dir[e]) /\ temp_user_data_dir[e].s \in chrome_dirs
       THEN /\ chrome_dirs' = chrome_dirs \ {temp_user_data_dir[e].s}
            /\ temp_user_data_dir' = [temp_user_data_dir EXCEPT ![e] = PyNone]
       ELSE UNCHANGED <<chrome_dirs, temp_user_data_dir>>
    /\ Goto(e, IF e_exc[e] = "" THEN "done" ELSE "except")
    /\ UNCHANGED <<driver, e_exc, e_response, chrome_procs>>
    /\ UNCHANGED notE

\* views.py lines 433-443
EndpointExcept(e) ==
    /\ e_pc[e] = "except"
    /\ e_response' = [e_response EXCEPT ![e] = [code |-> 500, success |-> FALSE]]
    /\ e_exc' = [e_exc EXCEPT ![e] = ""]
    /\ Goto(e, "done")
    /\ UNCHANGED <<driver, temp_user_data_dir, chrome_dirs, chrome_procs>>
    /\ UNCHANGED notE

InitBrowser ==
    /\ e_pc = [e \in Sess |-> "start"]
    /\ driver = [e \in Sess |-> PyNone]
    /\ temp_user_data_dir = [e \in Sess |-> PyNone]
    /\ e_exc = [e \in Sess |-> ""]
    /\ e_response = [e \in Sess |-> PyNone]
    /\ chrome_dirs = {}
    /\ chrome_procs = {}
    /\ YtIdle /\ McIdle /\ MwIdle /\ BIdle

NextBrowser ==
    \E e \in Sess :
        \/ NewClient(e)
        \/ Mkdtemp(e)
        \/ MkdtempRaises(e)
        \/ StartChrome(e)
        \/ StartChromeRaises(e)
        \/ ExecuteScript(e)
        \/ ExecuteScriptRaises(e)
        \/ WithBlock(e)
        \/ WithBlockRaises(e)
        \/ Quit(e)
        \/ QuitRaises(e)
        \/ Rmtree(e)
        \/ EndpointExcept(e)

BrowserSpec == InitBrowser /\ [][NextBrowser]_vars

(***************************************************************************)
(* Specifications.                                                         *)
(***************************************************************************)
\* one request, through the whole of post
Init == InitOf({"r1"}, EngineRequests, {FALSE}) /\ McIdle /\ MwIdle /\ BIdle /\ EIdle

Next ==
    \E r \in Reqs :
        \/ Post(r)
        \/ EnterTempDir(r)
        \/ BuildOptions(r)
        \/ AttemptSucceeds(r)
        \/ AttemptFails(r)
        \/ SelectFile(r)
        \/ ReadFile(r)
        \/ ReadFails(r)
        \/ ExitWith(r)
        \/ Unwind(r)
        \/ Except(r)

Spec == Init /\ [][Next]_vars

\* one request whose thread is scheduled until post returns: extract_info
\* returns or raises, and every other step of post is a terminating call
FairRequests ==
    {[DefaultRequest EXCEPT !.url = u, !.video_quality = q] :
        u \in {PyStr(S_url), PyNone}, q \in {PyStr(S_720), PyInt(720)}}
InitFair == InitOf({"r1"}, FairRequests, {FALSE}) /\ McIdle /\ MwIdle /\ BIdle /\ EIdle
FairSpec == InitFair /\ [][Next]_vars /\ WF_vars(Next)

\* every preference record, up to the strategy table
InitBuild == InitOf({"r1"}, BuildRequests, BOOLEAN) /\ McIdle /\ MwIdle /\ BIdle /\ EIdle

NextBuild ==
    \E r \in Reqs :
        \/ Post(r)
        \/ EnterTempDir(r)
        \/ BuildOptions(r)

BuildSpec == InitBuild /\ [][NextBuild]_vars

\* two requests served at the same time, each on its own thread
ConcRequests == {DefaultRequest, [DefaultRequest EXCEPT !.type = PyStr(S_audio)]}
InitConc ==
    /\ InitOf(Reqs, ConcRequests, {FALSE})
    /\ req["r1"].type = PyStr(S_video)
    /\ req["r2"].type = PyStr(S_audio)
    /\ McIdle /\ MwIdle /\ BIdle /\ EIdle

\* the extractor outcomes the interleavings are explored with: one cause of
\* failure, only the first strategy leaves a partial file behind, and a
\* returning invocation writes nothing or video.mp4
ConcEnv ==
    /\ \A r \in Reqs : \A k \in 1..Len(calls[r]) :
            calls[r][k].outcome \in {"ok", "HTTP Error 403: Forbidden"}
    /\ \A d \in DirIds : \A f \in files[d] :
            \/ f.name = N_part /\ f.by[2] = 1 /\ f.size = MaxSize
            \/ f.name = N_video_mp4 /\ f.size = 1

ConcAttemptSucceeds(r) == AttemptSucceeds(r) /\ ConcEnv'
ConcAttemptFails(r) == AttemptFails(r) /\ ConcEnv'

NextConc ==
    \E r \in Reqs :
        \/ Post(r)
        \/ EnterTempDir(r)
        \/ BuildOptions(r)
        \/ ConcAttemptSucceeds(r)
        \/ ConcAttemptFails(r)
        \/ SelectFile(r)
        \/ ReadFile(r)
        \/ ReadFails(r)
        \/ ExitWith(r)
        \/ Unwind(r)
        \/ Except(r)

ConcSpec == InitConc /\ [][NextConc]_vars

TypeOK ==
    /\ \A r \in Reqs : pc[r] \in {"idle", "start", "mkdtemp", "build", "attempt",
                                  "select", "read", "exit_with", "unwind",
                                  "except", "done"}
    /\ dirs \subseteq DirIds

(***************************************************************************)
(* Properties of the fallback loop.                                        *)
(***************************************************************************)
\* the request has a strategy table and has left the loop by a success
Succeeded(r) == calls[r] # <<>> /\ calls[r][Len(calls[r])].outcome = "ok"
\* the messages of the failures raised so far
FailureCauses(r) ==
    {calls[r][k].outcome : k \in {j \in 1..Len(calls[r]) : calls[r][j].outcome # "ok"}}
\* the invocations so far are strategies 1, 2, ... in table order, once each
InTableOrder(r) == \A k \in 1..Len(calls[r]) : calls[r][k].strategy = k
AfterLoop == {"select", "read", "exit_with", "unwind", "except", "done"}

\* C1: when strategy k is the first to succeed, strategies 1..k have been
\* invoked once each in table order, nothing is invoked after k, the request
\* goes on to result selection, and the response carries none of the causes
\* of the failed strategies 1..k-1.
C1_EarlyExit ==
    \A r \in Reqs : \A k \in 1..Len(calls[r]) :
        calls[r][k].outcome = "ok" =>
            /\ Len(calls[r]) = k
            /\ InTableOrder(r)
            /\ \A j \in 1..(k - 1) : calls[r][j].outcome \in Causes
            /\ pc[r] \in AfterLoop
            /\ pc[r] = "select" => response[r] = PyNone /\ exc[r] = PyNone
            /\ pc[r] = "done" =>
                \/ response[r] = DownloadFailed
                \/ response[r] = ErrorResponse([type |-> "OSError", msg |-> "read failed"])
                \/ response[r].status = 200 /\ response[r].body = main_file[r]
            /\ "error" \in DOMAIN response[r] => response[r].error \notin FailureCauses(r)

C1_Witness ==
    /\ pc["r1"] = "done"
    /\ Len(calls["r1"]) = 3
    /\ calls["r1"][1].outcome # calls["r1"][2].outcome
    /\ calls["r1"][3].outcome = "ok"
    /\ response["r1"].status = 200

\* C2: when all six strategies fail, each has been invoked once in table
\* order and the request answers 500 with the message of the sixth failure.
C2_Exhaustion ==
    \A r \in Reqs :
        (pc[r] = "done" /\ calls[r] # <<>> /\ ~Succeeded(r)) =>
            /\ Len(calls[r]) = 6
            /\ InTableOrder(r)
            /\ response[r].status = 500
            /\ response[r].error = calls[r][6].outcome
            /\ response[r].error_type = "DownloadError"

C2_Witness ==
    /\ pc["r1"] = "done"
    /\ Len(calls["r1"]) = 6
    /\ ~Succeeded("r1")
    /\ \A k \in 1..5 : calls["r1"][k].outcome # calls["r1"][6].outcome
    /\ response["r1"].status = 500

\* C3: the attempt index starts at the first strategy, moves only forward by
\* one and only on a failure, no strategy is invoked twice, at most six
\* invocations are made, and every run ends.
C3_IndexForward ==
    \A r \in Reqs :
        /\ i[r] \in 0..6
        /\ Len(calls[r]) <= 6
        /\ InTableOrder(r)
        /\ pc[r] = "attempt" => i[r] = Len(calls[r]) + 1
C3_Step ==
    \A r \in Reqs :
        i'[r] # i[r] =>
            \/ i[r] = 0 /\ i'[r] = 1 /\ calls'[r] = <<>>
            \/ /\ i'[r] = i[r] + 1
               /\ calls'[r] = Append(calls[r], calls'[r][Len(calls'[r])])
               /\ calls'[r][Len(calls'[r])].strategy = i[r]
               /\ calls'[r][Len(calls'[r])].outcome \in Causes
C3_ForwardOnly ==
    /\ []C3_IndexForward
    /\ [][C3_Step]_vars
    /\ <>(pc["r1"] = "done")

C3_Witness ==
    /\ pc["r1"] = "attempt"
    /\ i["r1"] = 6
    /\ Len(calls["r1"]) = 5

\* C4: whenever a request that created a scratch directory has returned its
\* response, the directory and everything in it is gone.
C4_ScratchRemoved ==
    \A r \in Reqs :
        (pc[r] = "done" /\ temp_dir[r] # "none") =>
            /\ temp_dir[r] \notin dirs
            /\ files[temp_dir[r]] = {}

C4_Witness ==
    /\ pc["r1"] = "done"
    /\ temp_dir["r1"] # "none"
    /\ response["r1"] = ErrorResponse([type |-> "OSError", msg |-> "read failed"])
    /\ Len(calls["r1"]) = 2

(***************************************************************************)
(* Properties of the strategy table and of the selector.                   *)
(***************************************************************************)
\* the request has built its strategy table
Built(r) == strategies[r] # <<>>
\* the table of the request rq in the scratch directory and environment of r
TableOf(rq, r) == BuildStrategies(rq, temp_dir[r], cookies)

\* C5: every strategy table has exactly six variants, and the selector of
\* the sixth differs from the selector of each of the first five.
C5_SixVariants ==
    \A r \in Reqs :
        /\ pc[r] = "attempt" => Built(r)
        /\ Built(r) =>
            /\ Len(strategies[r]) = 6
            /\ \A j \in 1..5 : strategies[r][6].format # strategies[r][j].format

C5_Witness ==
    /\ Built("r1")
    /\ req["r1"].type = PyStr(S_video)
    /\ req["r1"].video_quality = PyStr(S_best)
    /\ req["r1"].video_format = PyStr(S_auto)
    /\ Len(strategies["r1"]) = 6

\* C6: variant 1 is the base configuration; variants 2 to 5 have the keys of
\* the base and its value at every key but extractor_args, where they differ
\* from it; the base still holds the selector, plan, output template and
\* network identity it was built with.
C6_CopyOnWrite ==
    \A r \in Reqs :
        Built(r) =>
            /\ strategies[r][1] = ydl_opts[r]
            /\ \A j \in 2..5 :
                /\ DOMAIN strategies[r][j] = DOMAIN ydl_opts[r]
                /\ \A k \in DOMAIN ydl_opts[r] \ {"extractor_args"} :
                        strategies[r][j][k] = ydl_opts[r][k]
                /\ strategies[r][j].extractor_args # ydl_opts[r].extractor_args
            /\ ydl_opts[r].format = format_string(req[r]).val
            /\ ydl_opts[r].postprocessors = postprocessors(req[r])
            /\ ydl_opts[r].outtmpl = OutTmpl(temp_dir[r])
            /\ ydl_opts[r].extractor_args = common_opts(temp_dir[r]).extractor_args

C6_Witness ==
    /\ Built("r1")
    /\ req["r1"].include_subtitles
    /\ Len(ydl_opts["r1"].postprocessors) = 3
    /\ ydl_opts["r1"].postprocessors[1].key = "FFmpegVideoConvertor"
    /\ cookies

C8_ContainerRefinement ==
    \A r \in Reqs :
        (/\ Built(r)
         /\ req[r].type # PyStr(S_audio)
         /\ Truthy(req[r].video_format)
         /\ req[r].video_format # PyStr(S_auto)) =>
            ydl_opts[r].format =
                BaseTerm(req[r].video_quality) \o S_ext_eq
                \o Format(req[r].video_format) \o S_close \o S_slash \o S_best

\* C9: for a supported height h with container "auto", codec "auto" and no
\* size cap the video selector is "best[height<=h]/best".
C9_HeightBound ==
    \A r \in Reqs :
        (/\ pc[r] \notin {"idle", "start", "mkdtemp", "build"}
         /\ req[r].type # PyStr(S_audio)
         /\ req[r].video_quality.t = "str"
         /\ req[r].video_quality.s \in Heights
         /\ req[r].video_format = PyStr(S_auto)
         /\ req[r].video_codec = PyStr(S_auto)
         /\ req[r].file_size_limit = PyNone) =>
            /\ Built(r)
            /\ ydl_opts[r].format =
                <<"b", "e", "s", "t", "[", "h", "e", "i", "g", "h", "t", "<", "=">>
                \o req[r].video_quality.s \o <<"]", "/", "b", "e", "s", "t">>

C9_Witness ==
    /\ Built("r1")
    /\ req["r1"].type = PyStr(S_video)
    /\ req["r1"].video_quality = PyStr(<<"2", "1", "6", "0">>)
    /\ req["r1"].video_format = PyStr(S_auto)
    /\ req["r1"].video_codec = PyStr(S_auto)
    /\ req["r1"].file_size_limit = PyNone

\* C10 as stated: whatever the videoQuality of a request with a url, the
\* options are built, the video selector starts with the "best" base term or
\* a height bound, and the request is not answered with the error of the
\* selector builder.
C10_QualityNeverFails ==
    \A r \in Reqs :
        (Truthy(req[r].url) /\ pc[r] \in {"attempt"} \cup AfterLoop) =>
            /\ Built(r)
            /\ req[r].type # PyStr(S_audio) =>
                SubSeq(ydl_opts[r].format, 1, 4) = S_best
            /\ "error_type" \in DOMAIN response[r] =>
                response[r].error_type # "AttributeError"

\* C11: for every quality and container the video selector is the same
\* whatever the codec and the size cap (none, 0 or positive).
C11_CodecAndSizeIgnored ==
    \A r \in Reqs :
        (Built(r) /\ req[r].type # PyStr(S_audio)) =>
            \A k \in CodecValues, z \in SizeLimitValues :
                LET b == TableOf([req[r] EXCEPT !.video_codec = k, !.file_size_limit = z], r)
                IN  /\ b.ok
                    /\ b.ydl_opts.format = ydl_opts[r].format
                    /\ \A j \in 1..6 : b.strategies[j].format = strategies[r][j].format

C11_Witness ==
    /\ Built("r1")
    /\ req["r1"].type = PyStr(S_video)
    /\ req["r1"].video_codec = PyStr(S_h264)
    /\ req["r1"].file_size_limit = PyInt(100)
    /\ req["r1"].video_quality = PyStr(<<"1", "0", "8", "0">>)
    /\ req["r1"].video_format = PyStr(S_mp4)

\* C12: for every audio quality, audio container and size cap the audio
\* selector is "bestaudio/best".
C12_AudioSelectorFixed ==
    \A r \in Reqs :
        (Built(r) /\ req[r].type = PyStr(S_audio)) =>
            /\ ydl_opts[r].format =
                <<"b", "e", "s", "t", "a", "u", "d", "i", "o", "/", "b", "e", "s", "t">>
            /\ \A aq \in AudioQualityValues, af \in AudioFormatValues, z \in SizeLimitValues :
                TableOf([req[r] EXCEPT !.audio_quality = aq, !.audio_format = af,
                                       !.file_size_limit = z], r).ydl_opts.format
                    = ydl_opts[r].format

C12_Witness ==
    /\ Built("r1")
    /\ req["r1"].type = PyStr(S_audio)
    /\ req["r1"].audio_format = PyStr(S_flac)
    /\ req["r1"].audio_quality = PyInt(256)

\* position of each step kind in the fixed order of the plan
StepRank(step) ==
    CASE step.key \in {"FFmpegExtractAudio", "FFmpegVideoConvertor"} -> 1
      [] step.key = "FFmpegSubtitlesConvertor" -> 2
      [] step.key = "EmbedThumbnail" -> 3
      [] step.key = "FFmpegMetadata" -> 4
      [] OTHER -> 0

\* C13: the steps of every plan appear in the fixed order [ExtractAudio or
\* ConvertVideo, ConvertSubtitles, EmbedThumbnail, EmbedMetadata], each kind
\* at most once and never both ExtractAudio and ConvertVideo, and building
\* the plan again from the same request gives the same plan.
C13_PlanOrder ==
    \A r \in Reqs :
        Built(r) =>
            LET plan == ydl_opts[r].postprocessors
            IN  /\ \A k \in 1..Len(plan) : StepRank(plan[k]) \in 1..4
                /\ \A k \in 1..(Len(plan) - 1) : StepRank(plan[k]) < StepRank(plan[k + 1])
                /\ TableOf(req[r], r).ydl_opts.postprocessors = plan

C13_Witness ==
    /\ Built("r1")
    /\ Len(ydl_opts["r1"].postprocessors) = 4
    /\ ydl_opts["r1"].postprocessors[1].key = "FFmpegExtractAudio"

\* C14: for an audio request the plan starts with the one ExtractAudio step,
\* which carries the requested container and quality as sent; with another
\* audio container or quality every variant is the same but for that step.
C14_AudioPreferencesOnlyInExtractAudio ==
    \A r \in Reqs :
        (Built(r) /\ req[r].type = PyStr(S_audio)) =>
            LET plan == ydl_opts[r].postprocessors
            IN  /\ plan[1] = [key |-> "FFmpegExtractAudio",
                              preferredcodec |-> req[r].audio_format,
                              preferredquality |-> req[r].audio_quality]
                /\ \A k \in 2..Len(plan) : plan[k].key # "FFmpegExtractAudio"
                /\ \A aq \in AudioQualityValues, af \in AudioFormatValues :
                    LET b == TableOf([req[r] EXCEPT !.audio_quality = aq, !.audio_format = af], r)
                    IN  \A j \in 1..6 :
                        /\ DOMAIN b.strategies[j] = DOMAIN strategies[r][j]
                        /\ \A k \in DOMAIN strategies[r][j] \ {"postprocessors"} :
                                b.strategies[j][k] = strategies[r][j][k]
                        /\ Len(b.strategies[j].postprocessors) = Len(plan)
                        /\ b.strategies[j].postprocessors[1] =
                                [key |-> "FFmpegExtractAudio", preferredcodec |-> af,
                                 preferredquality |-> aq]
                        /\ \A k \in 2..Len(plan) :
                                b.strategies[j].postprocessors[k] = strategies[r][j].postprocessors[k]

C14_Witness ==
    /\ Built("r1")
    /\ req["r1"].type = PyStr(S_audio)
    /\ req["r1"].audio_format = PyStr(S_flac)
    /\ req["r1"].audio_quality = PyStr(S_256)
    /\ req["r1"].include_thumbnail
    /\ Len(ydl_opts["r1"].postprocessors) = 3

\* the ConvertVideo steps of a plan
ConvertSteps(plan) == {k \in 1..Len(plan) : plan[k].key = "FFmpegVideoConvertor"}

C16_ThumbnailNoOpForVideo ==
    \A r \in Reqs :
        Built(r) =>
            /\ (\E k \in 1..Len(ydl_opts[r].postprocessors) :
                    ydl_opts[r].postprocessors[k].key = "EmbedThumbnail")
               <=> (req[r].include_thumbnail /\ req[r].type = PyStr(S_audio))
            /\ req[r].type = PyStr(S_video) =>
                \A th \in BOOLEAN :
                    LET b == TableOf([req[r] EXCEPT !.include_thumbnail = th], r)
                    IN  /\ b.ydl_opts.postprocessors = ydl_opts[r].postprocessors
                        /\ b.strategies = strategies[r]

(***************************************************************************)
(* Properties of result selection.                                         *)
(***************************************************************************)
\* the request is about to return a file; its scratch directory still exists
ReturnsFile(r) == pc[r] = "exit_with" /\ response[r].status = 200

\* C17: the file returned has the largest byte size of all files in the
\* scratch directory; when the directory holds one file it is that file.
C17_LargestFileSelected ==
    \A r \in Reqs :
        /\ pc[r] = "read" => main_file[r] \in files[temp_dir[r]]
        /\ ReturnsFile(r) =>
            /\ response[r].body \in files[temp_dir[r]]
            /\ \A g \in files[temp_dir[r]] : g.size <= response[r].body.size
            /\ Cardinality(files[temp_dir[r]]) = 1 => files[temp_dir[r]] = {response[r].body}

C17_Witness ==
    /\ ReturnsFile("r1")
    /\ Cardinality(files[temp_dir["r1"]]) = 3
    /\ \E f \in files[temp_dir["r1"]] : f.size < response["r1"].body.size
    /\ \E f \in files[temp_dir["r1"]] :
            f # response["r1"].body /\ f.size = response["r1"].body.size

\* the container a request asks for
RequestedContainer(rq) ==
    IF rq.type = PyStr(<<"a", "u", "d", "i", "o">>) THEN rq.audio_format ELSE rq.video_format

\* C18: the download filename is "download." followed by the extension of
\* the selected file, or by the requested container when the file has none.
C18_DeclaredContainer ==
    \A r \in Reqs :
        (pc[r] \in {"exit_with", "done"} /\ response[r].status = 200) =>
            LET name == response[r].body.name
                download == <<"d", "o", "w", "n", "l", "o", "a", "d", ".">>
            IN  /\ name \in {N_video_mp4, N_video_jpg, N_video, N_part}
                /\ name = N_video_mp4 => response[r].filename = download \o <<"m", "p", "4">>
                /\ name = N_video_jpg => response[r].filename = download \o <<"j", "p", "g">>
                /\ name = N_part => response[r].filename = download \o <<"p", "a", "r", "t">>
                /\ name = N_video =>
                    /\ RequestedContainer(req[r]).t = "str"
                    /\ response[r].filename = download \o RequestedContainer(req[r]).s

C18_Witness ==
    /\ pc["r1"] = "done"
    /\ response["r1"].status = 200
    /\ response["r1"].body.name = N_video
    /\ req["r1"].type = PyStr(S_audio)
    /\ response["r1"].filename = S_download_dot \o S_mp3

\* the 500 responses of a request all of whose strategies failed
ExhaustionResponses == {ErrorResponse([type |-> "DownloadError", msg |-> c]) : c \in Causes}

\* C19: when a strategy returns and the scratch directory is empty, the
\* request answers with the "Download failed" error, which is none of the
\* responses of an exhausted request and carries no file, and no strategy is
\* invoked after the one that returned.
C19_NoOutputProduced ==
    \A r \in Reqs :
        /\ (pc[r] = "exit_with") => (main_file[r] = PyNone <=> files[temp_dir[r]] = {})
        /\ (Succeeded(r) /\ main_file[r] = PyNone /\ pc[r] \in AfterLoop \ {"select"}) =>
            /\ pc[r] \in {"exit_with", "done"}
            /\ response[r] = [status |-> 500, error |-> "Download failed"]
            /\ response[r] \notin ExhaustionResponses
            /\ "body" \notin DOMAIN response[r]
            /\ \A k \in 1..(Len(calls[r]) - 1) : calls[r][k].outcome # "ok"

C19_Witness ==
    /\ pc["r1"] = "done"
    /\ Succeeded("r1")
    /\ Len(calls["r1"]) = 2
    /\ main_file["r1"] = PyNone
    /\ response["r1"] = DownloadFailed

(***************************************************************************)
(* Isolation of concurrent requests.                                       *)
(***************************************************************************)
\* the request is inside the with block of its scratch directory
Live(r) == pc[r] \in {"build", "attempt", "select", "read", "exit_with", "unwind"}

\* the locals of post on the thread of request r
Locals(r) ==
    <<req[r], pc[r], temp_dir[r], ydl_opts[r], strategies[r], i[r], info[r],
      last_error[r], exc[r], main_file[r], response[r], calls[r]>>

\* what a directory can hold when strategy k of request r returns after the
\* strategies before it failed, and no other request exists
AloneDirs(r, k) ==
    {Written(left, out) :
        left \in {{}} \cup {{File(N_part, a, <<r, j>>)} : j \in 1..(k - 1), a \in 1..MaxSize},
        out \in Outputs(<<r, k>>)}

\* the responses request r can give when it runs alone and the extractor
\* returns and raises as recorded in calls[r]
AloneOutcomes(r) ==
    LET cs == calls[r]
        b == BuildStrategies(req[r], "tmp1", cookies)
    IN  IF ~Truthy(req[r].url) THEN {UrlRequired}
        ELSE IF ~b.ok THEN {ErrorResponse(b.exc)}
        ELSE IF cs # <<>> /\ cs[Len(cs)].outcome = "ok"
        THEN UNION {IF d = {} THEN {DownloadFailed}
                    ELSE {FileResponse(req[r], f) : f \in LargestFiles(d)}
                         \cup {ErrorResponse([type |-> "OSError", msg |-> "read failed"])} :
                    d \in AloneDirs(r, Len(cs))}
        ELSE IF Len(cs) = Len(b.strategies)
        THEN {ErrorResponse([type |-> "DownloadError", msg |-> cs[Len(cs)].outcome])}
        ELSE {}

IsolationInv ==
    /\ \A r \in Reqs : \A s \in Reqs \ {r} : Live(r) /\ Live(s) => temp_dir[r] # temp_dir[s]
    /\ \A r \in Reqs : Live(r) =>
        /\ temp_dir[r] \in dirs
        /\ \A f \in files[temp_dir[r]] : f.by[1] = r
    /\ \A r \in Reqs : pc[r] \in {"attempt", "select", "read", "exit_with"} =>
        /\ ydl_opts[r] = BuildStrategies(req[r], temp_dir[r], cookies).ydl_opts
        /\ strategies[r] = BuildStrategies(req[r], temp_dir[r], cookies).strategies
        /\ \A k \in 1..Len(strategies[r]) : OutDir(strategies[r][k]) = temp_dir[r]
        /\ InTableOrder(r)
    /\ \A r \in Reqs : pc[r] = "read" =>
        /\ main_file[r] \in LargestFiles(files[temp_dir[r]])
        /\ main_file[r].by[1] = r
    /\ \A r \in Reqs : pc[r] = "exit_with" =>
        response[r] \in (IF files[temp_dir[r]] = {} THEN {DownloadFailed}
                         ELSE {FileResponse(req[r], f) : f \in LargestFiles(files[temp_dir[r]])})
    /\ \A r \in Reqs : pc[r] = "done" => response[r] \in AloneOutcomes(r)

\* a step of one request leaves the locals of the other and the scratch
\* directory the other is in untouched
NonInterference ==
    \A r \in Reqs : \A s \in Reqs \ {r} :
        Locals(r)' # Locals(r) =>
            /\ Locals(s)' = Locals(s)
            /\ Live(s) => (temp_dir[s] \in dirs' /\ files'[temp_dir[s]] = files[temp_dir[s]])

\* C20: in every interleaving of two requests each request runs its loop on
\* its own scratch directory and its own option maps, no request reads,
\* selects or removes a file of the other's directory, and each request's
\* response is one it gives when run alone with the same extractor outcomes.
C20_Isolation == []IsolationInv /\ [][NonInterference]_vars

C20_Witness ==
    /\ pc["r1"] = "exit_with" /\ pc["r2"] = "exit_with"
    /\ temp_dir["r1"] = "tmp2" /\ temp_dir["r2"] = "tmp1"
    /\ response["r1"].status = 200 /\ response["r2"].status = 200
    /\ response["r1"].body.by = <<"r1", 2>>
    /\ response["r2"].body.by[1] = "r2"
    /\ response["r2"].body.name = N_part
    /\ Cardinality(files["tmp1"]) = 2
    /\ \E f \in files["tmp1"] : \E g \in files["tmp2"] : f.name = g.name /\ f.by[1] # g.by[1]

(***************************************************************************)
(* Leftovers of failed attempts, and unrecognised types.                   *)
(***************************************************************************)
\* the files of the scratch directory of r written by the strategy that returned
OfSucceeded(r) == {f \in files[temp_dir[r]] : f.by = <<r, Len(calls[r])>>}

\* C27 as stated: the file returned was written by the strategy that
\* succeeded, never by one of the failed attempts before it.
C27_WrittenBySucceeded ==
    \A r \in Reqs : ReturnsFile(r) => response[r].body \in OfSucceeded(r)

\* C27 as amended: the file returned was written by an attempt of the same
\* request, and by the strategy that succeeded whenever that strategy wrote a
\* file larger than every file left by the failed attempts before it.
C27_WrittenBySucceededWhenLargest ==
    \A r \in Reqs :
        ReturnsFile(r) =>
            /\ response[r].body.by[1] = r
            /\ response[r].body.by[2] \in 1..Len(calls[r])
            /\ (\E f \in OfSucceeded(r) :
                    \A g \in files[temp_dir[r]] \ OfSucceeded(r) : g.size < f.size)
               => response[r].body \in OfSucceeded(r)

C27_Witness ==
    /\ ReturnsFile("r1")
    /\ Len(calls["r1"]) = 3
    /\ \E g \in files[temp_dir["r1"]] : g.by = <<"r1", 2>> /\ g.size = 1
    /\ response["r1"].body.by = <<"r1", 3>>
    /\ response["r1"].body.size = 2

\* a step other than the conversion of the video container
NotConvertVideo(step) == step.key # "FFmpegVideoConvertor"

\* the request has a type that is neither 'audio' nor 'video'
OtherType(r) == req[r].type \notin {PyStr(S_audio), PyStr(S_video)}

\* the same request with type 'video'
AsVideo(r) == TableOf([req[r] EXCEPT !.type = PyStr(S_video)], r)

\* C28 as stated: a request whose type is neither 'audio' nor 'video' gets
\* the selector, the plan and the six variants of the same request with type
\* 'video'.
C28_OtherTypeIsVideo ==
    \A r \in Reqs :
        (Built(r) /\ OtherType(r)) =>
            /\ ydl_opts[r].format = AsVideo(r).ydl_opts.format
            /\ ydl_opts[r].postprocessors = AsVideo(r).ydl_opts.postprocessors
            /\ strategies[r] = AsVideo(r).strategies

\* C28 as amended: such a request gets the selector of the video request,
\* and its plan and its six variants without the ConvertVideo step; they are
\* those of the video request when the container is not avi, mov, mkv or flv.
C28_OtherTypeIsVideoWithoutConvert ==
    \A r \in Reqs :
        /\ (OtherType(r) /\ pc[r] = "unwind") =>
            (~AsVideo(r).ok /\ exc[r] = AsVideo(r).exc)
        /\ (OtherType(r) /\ Built(r)) =>
            /\ AsVideo(r).ok
            /\ ydl_opts[r].format = AsVideo(r).ydl_opts.format
            /\ ydl_opts[r].postprocessors =
                    SelectSeq(AsVideo(r).ydl_opts.postprocessors, NotConvertVideo)
            /\ Len(strategies[r]) = Len(AsVideo(r).strategies)
            /\ \A k \in 1..Len(strategies[r]) :
                    [AsVideo(r).strategies[k] EXCEPT
                        !.postprocessors = SelectSeq(@, NotConvertVideo)] = strategies[r][k]
            /\ req[r].video_format \notin
                    {PyStr(<<"a", "v", "i">>), PyStr(<<"m", "o", "v">>),
                     PyStr(<<"m", "k", "v">>), PyStr(<<"f", "l", "v">>)}
               => strategies[r] = AsVideo(r).strategies

C28_Witness ==
    /\ Built("r1")
    /\ OtherType("r1")
    /\ req["r1"].video_format = PyStr(S_mkv)
    /\ req["r1"].video_quality = PyStr(S_720)
    /\ ConvertSteps(ydl_opts["r1"].postprocessors) = {}
    /\ ConvertSteps(AsVideo("r1").ydl_opts.postprocessors) = {1}

(***************************************************************************)
(* Properties of the conversion-task map.                                  *)
(***************************************************************************)
\* the task of conversion request c has been stored
Stored(c) == task_id[c] # PyNone

\* what identifies the entry of a task
Identity(task) == <<task.input_path, task.output_path, task.output_format>>

C21_Present ==
    \A c \in ConvReqs :
        Stored(c) =>
            /\ task_id[c].s \in DOMAIN conversion_tasks
            /\ conversion_tasks[task_id[c].s].input_path = input_path[c]
            /\ conversion_tasks[task_id[c].s].output_format = mreq[c].output_format

C21_Step ==
    /\ \A t \in DOMAIN conversion_tasks :
        /\ t \in DOMAIN conversion_tasks'
        /\ Identity(conversion_tasks'[t]) = Identity(conversion_tasks[t])
    /\ Cardinality(DOMAIN conversion_tasks') >= Cardinality(DOMAIN conversion_tasks)

\* C21: once a conversion request has stored the entry of its task, the
\* entry is in the map in every later state and stays the entry of that
\* task, and the number of entries never decreases.
C21_MapOnlyGrows == []C21_Present /\ [][C21_Step]_vars

C21_Witness ==
    /\ mpc["c1"] = "done" /\ mpc["c2"] = "done"
    /\ Stored("c1") /\ Stored("c2")
    /\ spc["s1"] = "done"
    /\ Cardinality(DOMAIN conversion_tasks) = 2
    /\ conversion_tasks[task_id["c1"].s].status = "failed"
    /\ conversion_tasks[task_id["c2"].s].status = "completed"

Statuses == {"pending", "processing", "completed", "failed"}

C23_Declared ==
    \A t \in DOMAIN conversion_tasks :
        /\ conversion_tasks[t].status \in Statuses
        /\ conversion_tasks[t].progress \in 0..100

C23_Step ==
    \A t \in DOMAIN conversion_tasks :
        /\ \/ conversion_tasks'[t].status = conversion_tasks[t].status
           \/ <<conversion_tasks[t].status, conversion_tasks'[t].status>> \in
                {<<"pending", "processing">>, <<"processing", "completed">>,
                 <<"processing", "failed">>, <<"pending", "failed">>}
        /\ conversion_tasks'[t].progress >= conversion_tasks[t].progress

\* C23: the status of a task is one of the four declared values and moves
\* only pending -> processing -> completed, pending -> processing -> failed
\* or pending -> failed, so that completed and failed are terminal; progress
\* is within 0..100 and never decreases.
C23_Lifecycle == []C23_Declared /\ [][C23_Step]_vars

\* C24: a status response reporting 'completed' reports progress 100 and the
\* download URL /media/conversions/<task_id>.<output_format>, and one
\* reporting 'failed' carries an error, whatever the interleaving with the
\* conversion request of the task.
C24_ConsistentStatusResponse ==
    \A s \in StatusReqs :
        (spc[s] = "done" /\ sresponse[s].code = 200) =>
            LET data == sresponse[s].data
            IN  /\ data.status = "completed" =>
                    /\ data.progress = 100
                    /\ "download_url" \in DOMAIN data
                    /\ data.download_url =
                        PyStr(<<"/", "m", "e", "d", "i", "a", "/", "c", "o", "n", "v", "e",
                                "r", "s", "i", "o", "n", "s", "/">>
                              \o sreq[s] \o <<".">>
                              \o conversion_tasks[sreq[s]].output_format.s)
                /\ data.status = "failed" => "error" \in DOMAIN data

C25_Answer ==
    \A s \in StatusReqs :
        spc[s] = "done" =>
            /\ sresponse[s].code \in {200, 404}
            /\ sresponse[s].code = 404 => sresponse[s] = [code |-> 404, error |-> "Task not found"]
            /\ sresponse[s].code = 200 =>
                /\ sreq[s] \in DOMAIN conversion_tasks
                /\ sresponse[s].data.task_id = sreq[s]
                /\ sresponse[s].data.status \in Statuses
                /\ sresponse[s].data.progress <= conversion_tasks[sreq[s]].progress

C25_Step ==
    \A s \in StatusReqs :
        spc'[s] # spc[s] =>
            /\ UNCHANGED <<conversion_tasks, temp_uploads, mreq, mpc, input_path, task_id,
                           mexc, mresponse>>
            /\ spc[s] = "start" =>
                (spc'[s] = "done" <=> sreq[s] \notin DOMAIN conversion_tasks)
            /\ (spc[s] = "start" /\ spc'[s] = "done") => sresponse'[s].code = 404
            /\ spc[s] = "status" =>
                response_data'[s].status = conversion_tasks[sreq[s]].status
            /\ spc[s] = "progress" =>
                /\ response_data'[s].progress = conversion_tasks[sreq[s]].progress
                /\ response_data'[s].status = response_data[s].status
            /\ spc'[s] = "done" /\ spc[s] # "start" =>
                /\ sresponse'[s].code = 200
                /\ sresponse'[s].data.status = response_data[s].status
                /\ sresponse'[s].data.progress = response_data[s].progress

\* C25: a status request for a task id no conversion request has stored
\* answers 404, one for a stored task answers with the status and the
\* progress it read from that task, and no step of a status request changes
\* the task map or anything else of the converter.
C25_StatusLookup == []C25_Answer /\ [][C25_Step]_vars

C25_Witness ==
    /\ spc["s1"] = "done"
    /\ sreq["s1"] = TaskIdOf("c2")
    /\ sresponse["s1"].code = 200
    /\ sresponse["s1"].data.status = "processing"
    /\ sresponse["s1"].data.progress = 10
    /\ mpc["c1"] = "done" /\ mresponse["c1"].code = 404

\* the input file of conversion request c is no longer in temp_uploads
InputRemoved(c) == input_path[c].s \notin temp_uploads

\* C26: the input file of a conversion is removed exactly when the
\* conversion succeeded and the request supplied no temp_id; after a failed
\* conversion and after a conversion that used a temp_id it is still there.
C26_InputRemovedIffNewAndCompleted ==
    \A c \in ConvReqs :
        input_path[c] # PyNone =>
            (InputRemoved(c) <=>
                (/\ mpc[c] = "done"
                 /\ mresponse[c].code = 200
                 /\ mresponse[c].status = "completed"
                 /\ ~Truthy(mreq[c].temp_id)))

C26_Witness ==
    /\ mpc["c1"] = "done" /\ mpc["c2"] = "done"
    /\ mresponse["c1"].code = 200 /\ mresponse["c2"].code = 200
    /\ ~Truthy(mreq["c1"].temp_id) /\ Truthy(mreq["c2"].temp_id)
    /\ InputRemoved("c1") /\ ~InputRemoved("c2")

(***************************************************************************)
(* The upload gate.                                                        *)
(***************************************************************************)
\* the request is a multipart/form-data request
IsMultipart == mw_request.content_type = PyStr(S_multipart_form_data)

\* the request carries a Content-Length, and it is a number
HasLength == Truthy(mw_request.content_length)
LengthIsNumber == HasLength /\ ~int_raises(mw_request.content_length.s)
Length == int(mw_request.content_length.s)

OverLimit == IsMultipart /\ LengthIsNumber /\ Length > DATA_UPLOAD_MAX_MEMORY_SIZE
EveryOther ==
    \/ ~IsMultipart
    \/ ~HasLength
    \/ LengthIsNumber /\ Length <= DATA_UPLOAD_MAX_MEMORY_SIZE

\* C22: a multipart/form-data request whose Content-Length exceeds the
\* maximum never reaches the downstream handler and is answered 413 by the
\* gate itself; a request that is not multipart, has no Content-Length or
\* has one at or below the maximum reaches the downstream handler at most
\* once, and once answered has reached it exactly once and got the
\* downstream response, unchanged.
C22_UploadSizeGate ==
    /\ OverLimit =>
        /\ mw_calls = 0
        /\ mw_pc \in {"done", "raised"} =>
            /\ mw_pc = "done"
            /\ mw_response = JsonResponse413
    /\ EveryOther =>
        /\ mw_calls <= 1
        /\ mw_pc \in {"done", "raised"} =>
            /\ mw_pc = "done"
            /\ mw_calls = 1
            /\ mw_response = mw_downstream

\* a multipart upload of exactly the maximum was passed on, and answered 200
C22_Witness ==
    /\ mw_pc = "done"
    /\ IsMultipart
    /\ LengthIsNumber
    /\ Length = DATA_UPLOAD_MAX_MEMORY_SIZE
    /\ mw_calls = 1
    /\ mw_response = HttpResponse(200, "view")

(***************************************************************************)
(* The batch endpoint.                                                     *)
(***************************************************************************)
\* the entries of seq at the positions of S, in the order of seq
Pick(seq, S) ==
    LET F[k \in 0..Len(seq)] ==
            IF k = 0 THEN <<>>
            ELSE IF k \in S THEN Append(F[k - 1], seq[k]) ELSE F[k - 1]
    IN F[Len(seq)]

\* the posting ids a list of entries names
IdsOf(entries) == [k \in 1..Len(entries) |-> entries[k].postingId]

\* the first n ids submitted are split between the two lists, each list
\* keeping the order of submission
SplitInOrder(n, res, errs) ==
    \E S \in SUBSET (1..n) :
        /\ IdsOf(res) = Pick(SubSeq(posting_ids, 1, n), S)
        /\ IdsOf(errs) = Pick(SubSeq(posting_ids, 1, n), (1..n) \ S)

\* C29: for a non-empty list of posting ids every submitted id lands in
\* exactly one of results and errors, each list in input order; an id that
\* failed does not end the loop (the response is only given after the last
\* id), and totalProcessed + totalErrors is the number of ids submitted.
C29_EachIdOnce ==
    /\ b_pc = "loop" => SplitInOrder(b_k, results, errors)
    /\ (b_pc = "done" /\ b_body.json /\ Len(get_postingIds(b_body)) > 0) =>
        /\ b_response.code = 200
        /\ posting_ids = get_postingIds(b_body)
        /\ SplitInOrder(Len(posting_ids), b_response.results, b_response.errors)
        /\ Len(b_response.results) + Len(b_response.errors) = Len(posting_ids)
        /\ b_response.totalProcessed = Len(b_response.results)
        /\ b_response.totalErrors = Len(b_response.errors)
        /\ b_response.totalProcessed + b_response.totalErrors = Len(posting_ids)

\* three ids, the first one failed, and the two after it were processed
C29_Witness ==
    /\ b_pc = "done"
    /\ Len(posting_ids) = MaxIds
    /\ b_response.code = 200
    /\ IdsOf(b_response.errors) = <<posting_ids[1]>>
    /\ IdsOf(b_response.results) = <<posting_ids[2], posting_ids[3]>>
    /\ posting_ids[1] = posting_ids[2]

(***************************************************************************)
(* The browser sessions.                                                   *)
(***************************************************************************)
\* what start_browser made for a call is gone, and the client holds no driver
CleanedUp(e) ==
    /\ ChromeDirOf(e) \notin chrome_dirs
    /\ ChromeOf(e) \notin chrome_procs
    /\ driver[e] = PyNone

\* C30: when the endpoint that opened the client has returned, the
\* temporary user-data directory start_browser created is removed and the
\* driver is quit and reset to none, whichever way the endpoint went:
\* normal return, an exception in the with block, a failure while starting
\* the browser.
C30_SessionCleanup == \A e \in Sess : e_pc[e] = "done" => CleanedUp(e)

====
